---- MODULE Spec2Model ----
(***************************************************************************)
(* Meal-plan solver of backend-meal-planner: target distribution, source   *)
(* strategy, candidate provider, quantity calculator, meal composer, plan  *)
(* orchestrator (MealPlanSolver.solve) and MealPlanValidator.validate.     *)
(*                                                                         *)
(* Numbers.  Python floats are modelled as exact rationals <<n, d>> with   *)
(* d > 0 in lowest terms; None is the empty tuple.  round(x, 1) is         *)
(* modelled as rounding to the nearest tenth, ties to even.                *)
(* Names.  A food name is modelled as the set of keywords that occur in it *)
(* as substrings, so that `kw in name` is membership.                      *)
(* Macros.  The optional fields sodium, sugar and saturated_fat are        *)
(* handled by the same code as fiber; fiber stands for them.               *)
(***************************************************************************)
EXTENDS Integers, Sequences, FiniteSets, TLC

None == <<>>

-----------------------------------------------------------------------------
(* Exact rational arithmetic                                               *)

Abs(x) == IF x < 0 THEN -x ELSE x

RECURSIVE GCD(_, _)
GCD(a, b) == IF b = 0 THEN a ELSE GCD(b, a % b)

Norm(n, d) == LET g == GCD(Abs(n), d) IN <<n \div g, d \div g>>

R(n) == <<n, 1>>

Zero == <<0, 1>>

RAdd(a, b) ==
    LET g == GCD(a[2], b[2])
        l == (a[2] \div g) * b[2]
    IN  Norm(a[1] * (l \div a[2]) + b[1] * (l \div b[2]), l)

RSub(a, b) == RAdd(a, <<-b[1], b[2]>>)

RMul(a, b) ==
    LET g1 == GCD(Abs(a[1]), b[2])
        g2 == GCD(Abs(b[1]), a[2])
    IN  Norm((a[1] \div g1) * (b[1] \div g2), (a[2] \div g2) * (b[2] \div g1))

\* a / b for b # 0
RDiv(a, b) ==
    IF b[1] > 0 THEN RMul(a, <<b[2], b[1]>>) ELSE RMul(a, <<-b[2], -b[1]>>)

RLt(a, b) == RSub(a, b)[1] < 0
RLe(a, b) == RSub(a, b)[1] <= 0
RGt(a, b) == RLt(b, a)
RAbs(a) == <<Abs(a[1]), a[2]>>
RMax(a, b) == IF RLt(a, b) THEN b ELSE a
RMin(a, b) == IF RLt(b, a) THEN b ELSE a

\* Python truthiness of an Optional[float]: None and 0.0 are falsy
Truthy(x) == x # None /\ x[1] # 0

\* `x or 0`
OrZero(x) == IF Truthy(x) THEN x ELSE Zero

\* round(x, 1) for x >= 0
Round1(x) ==
    LET n == 10 * x[1]
        q == n \div x[2]
        r == n % x[2]
        up == IF 2 * r > x[2] THEN 1
              ELSE IF 2 * r < x[2] THEN 0
              ELSE q % 2
    IN  Norm(q + up, 10)

\* int(x) for x >= 0
IntOf(x) == x[1] \div x[2]

-----------------------------------------------------------------------------
(* schemas.Macros                                                          *)

Macros(cal, prot, carb, fat, fib) ==
    [calories |-> cal, proteins |-> prot, carbs |-> carb, fats |-> fat,
     fiber |-> fib]

MacrosZero == Macros(Zero, Zero, Zero, Zero, None)

MacrosScale(m, factor) ==
    Macros(RMul(m.calories, factor),
           RMul(m.proteins, factor),
           RMul(m.carbs, factor),
           RMul(m.fats, factor),
           IF Truthy(m.fiber) THEN RMul(m.fiber, factor) ELSE None)

MacrosAdd(a, b) ==
    Macros(RAdd(a.calories, b.calories),
           RAdd(a.proteins, b.proteins),
           RAdd(a.carbs, b.carbs),
           RAdd(a.fats, b.fats),
           IF Truthy(a.fiber) \/ Truthy(b.fiber)
           THEN RAdd(OrZero(a.fiber), OrZero(b.fiber)) ELSE None)

\* Field(ge=0) on every present field
MacrosValid(m) ==
    /\ m.calories[1] >= 0 /\ m.proteins[1] >= 0
    /\ m.carbs[1] >= 0 /\ m.fats[1] >= 0
    /\ (m.fiber # None => m.fiber[1] >= 0)

-----------------------------------------------------------------------------
(* Enumerations of schemas.py                                              *)

MealTypes == <<"breakfast", "lunch", "snack", "dinner">>

-----------------------------------------------------------------------------
(* data_access: source strategy                                            *)

\* weights in hundredths
SourceStrategy(gustar, ciqual, off) ==
    [gustar |-> gustar, ciqual |-> ciqual, off |-> off]

determine_source_strategy_simple_default(preference, meal_type) ==
    LET is_main_meal == meal_type \in {"lunch", "dinner"}
    IN  IF preference = "fresh"
        THEN IF ~is_main_meal THEN SourceStrategy(0, 90, 10)
                              ELSE SourceStrategy(20, 70, 10)
        ELSE IF preference = "recipes"
        THEN IF ~is_main_meal THEN SourceStrategy(10, 80, 10)
                              ELSE SourceStrategy(70, 20, 10)
        ELSE IF preference = "quick"
        THEN IF ~is_main_meal THEN SourceStrategy(10, 30, 60)
                              ELSE SourceStrategy(30, 30, 40)
        ELSE IF ~is_main_meal THEN SourceStrategy(10, 70, 20)
                              ELSE SourceStrategy(40, 45, 15)

determine_source_strategy(preference, meal_type) ==
    LET is_simple_meal == meal_type \in {"breakfast", "snack"}
    IN  IF preference = "fresh"
        THEN IF is_simple_meal THEN SourceStrategy(0, 90, 10)
                               ELSE SourceStrategy(20, 70, 10)
        ELSE IF preference = "recipes"
        THEN IF is_simple_meal THEN SourceStrategy(10, 80, 10)
                               ELSE SourceStrategy(70, 20, 10)
        ELSE IF preference = "quick"
        THEN IF is_simple_meal THEN SourceStrategy(10, 30, 60)
                               ELSE SourceStrategy(30, 30, 40)
        ELSE IF is_simple_meal THEN SourceStrategy(10, 70, 20)
                               ELSE SourceStrategy(40, 45, 15)

total_per_role == 15

Max(a, b) == IF a > b THEN a ELSE b

SourceLimitRounded(lo, weight) == Max(lo, (total_per_role * weight + 50) \div 100)

\* max(lo, int(total_per_role * weight))
SourceLimit(lo, weight) == Max(lo, (total_per_role * weight) \div 100)

-----------------------------------------------------------------------------
(* data_access: conversion of raw catalogue items to FoodItem              *)

CiqualGlutenKw == {"gluten", "ble", "seigle", "orge", "pain", "pate"}
CiqualDairyKw == {"lait", "fromage", "yaourt", "creme", "beurre"}
CiqualNutsKw == {"noix", "amande", "noisette", "pistache", "cajou"}
CiqualFishKw == {"poisson", "saumon", "thon", "cabillaud"}
CiqualShellfishKw == {"crevette", "crabe", "homard", "moule", "huitre"}

CiqualExtractAllergens(item) ==
    LET name == item.name
        both == item.name \cup item.group
    IN  (IF both \cap CiqualGlutenKw # {} THEN {"gluten"} ELSE {})
        \cup (IF both \cap CiqualDairyKw # {} THEN {"dairy"} ELSE {})
        \cup (IF "oeuf" \in name THEN {"eggs"} ELSE {})
        \cup (IF name \cap CiqualNutsKw # {} THEN {"nuts"} ELSE {})
        \cup (IF name \cap {"arachide", "cacahuete"} # {} THEN {"peanuts"} ELSE {})
        \cup (IF "soja" \in name THEN {"soy"} ELSE {})
        \cup (IF both \cap CiqualFishKw # {} THEN {"fish"} ELSE {})
        \cup (IF name \cap CiqualShellfishKw # {} THEN {"shellfish"} ELSE {})
        \cup (IF "sesame" \in name THEN {"sesame"} ELSE {})

CiqualMeatKw == {"viande", "poisson", "boeuf", "porc", "poulet", "saumon", "thon"}
CiqualAnimalKw == {"lait", "fromage", "oeuf", "yaourt", "beurre", "creme"}
CiqualMeatNotFishKw == {"viande", "boeuf", "porc", "poulet", "agneau"}

CiqualDetermineDiets(item) ==
    LET both == item.name \cup item.group
        is_meat == both \cap CiqualMeatKw # {}
        is_animal == is_meat \/ both \cap CiqualAnimalKw # {}
        is_meat_not_fish == both \cap CiqualMeatNotFishKw # {}
    IN  {"omnivore"}
        \cup (IF ~is_meat THEN {"vegetarian"} ELSE {})
        \cup (IF ~is_animal THEN {"vegan"} ELSE {})
        \cup (IF ~is_meat_not_fish THEN {"pescatarian"} ELSE {})
        \cup (IF RLt(item.macros.carbs, R(10)) THEN {"keto", "lowcarb"} ELSE {})

\* FoodItem defaults: min_portion_g = 10, max_portion_g = 500
DefaultMinPortion == 10
DefaultMaxPortion == 500

\* The role (CiqualDataSource._determine_role) is catalogue data here.
CiqualItemToFood(item) ==
    [id |-> item.id, source |-> "ciqual", name |-> item.name,
     macros_per_100g |-> item.macros, role |-> item.role,
     allergens |-> CiqualExtractAllergens(item),
     diet_compatible |-> CiqualDetermineDiets(item),
     min_portion_g |-> R(DefaultMinPortion),
     max_portion_g |-> R(DefaultMaxPortion)]

GustarGlutenKw == {"gluten", "ble", "farine", "pain", "pate"}
GustarDairyKw == {"lait", "fromage", "creme", "yaourt", "beurre"}

\* combined = title + ingredient names
GustarExtractAllergens(item) ==
    LET combined == item.name \cup item.ingredients
    IN  (IF combined \cap GustarGlutenKw # {} THEN {"gluten"} ELSE {})
        \cup (IF combined \cap GustarDairyKw # {} THEN {"dairy"} ELSE {})
        \cup (IF "oeuf" \in combined THEN {"eggs"} ELSE {})
        \cup (IF combined \cap {"noix", "amande", "noisette"} # {} THEN {"nuts"} ELSE {})
        \cup (IF combined \cap {"arachide", "cacahuete"} # {} THEN {"peanuts"} ELSE {})
        \cup (IF "soja" \in combined THEN {"soy"} ELSE {})
        \cup (IF combined \cap {"poisson", "saumon", "thun"} # {} THEN {"fish"} ELSE {})

GustarMeatKw == {"poulet", "boeuf", "porc", "viande", "poisson", "saumon", "thun"}

\* combined = title + description; item.nutrition is per portion
GustarDetermineDiets(item) ==
    LET combined == item.name \cup item.description
    IN  {"omnivore"}
        \cup (IF "vegan" \in combined THEN {"vegetarian", "vegan"}
              ELSE IF "vegetarien" \in combined THEN {"vegetarian"}
              ELSE IF combined \cap GustarMeatKw = {} THEN {"vegetarian"}
              ELSE {})
        \cup (IF RLt(item.nutrition.carbs, R(20)) THEN {"lowcarb"} ELSE {})
        \cup (IF RLt(item.nutrition.carbs, R(10)) THEN {"keto"} ELSE {})

portion_weight_g == 300

\* The role (GustartDataSource._determine_role) is catalogue data here.
GustarItemToFood(item) ==
    [id |-> item.id, source |-> "gustar", name |-> item.name,
     macros_per_100g |->
        Macros(RMul(item.nutrition.calories, <<100, portion_weight_g>>),
               RMul(item.nutrition.proteins, <<100, portion_weight_g>>),
               RMul(item.nutrition.carbs, <<100, portion_weight_g>>),
               RMul(item.nutrition.fats, <<100, portion_weight_g>>),
               IF Truthy(item.nutrition.fiber)
               THEN RMul(item.nutrition.fiber, <<100, portion_weight_g>>)
               ELSE None),
     role |-> item.role,
     allergens |-> GustarExtractAllergens(item),
     diet_compatible |-> GustarDetermineDiets(item),
     min_portion_g |-> RMul(R(portion_weight_g), <<1, 2>>),
     max_portion_g |-> RMul(R(portion_weight_g), <<3, 2>>)]

-----------------------------------------------------------------------------
(* data_access: queries                                                    *)

MapSeq(s, Op(_)) == [i \in 1..Len(s) |-> Op(s[i])]

SeqToSet(s) == {s[i] : i \in 1..Len(s)}

\* the loop `results.append(food); if len(results) >= limit: break`
Take(s, limit) == SubSeq(s, 1, IF limit < Len(s) THEN limit ELSE Len(s))

PassesFiltersDietOnly(food, diet, exclude_allergens) ==
    diet # "none" => diet \in food.diet_compatible

\* `if diet and diet not in food.diet_compatible: continue`,
\* `if exclude_allergens: if any(a in food.allergens ...): continue`;
\* diet "none" is Python None
PassesFilters(food, diet, exclude_allergens) ==
    /\ (diet # "none" => diet \in food.diet_compatible)
    /\ food.allergens \cap exclude_allergens = {}

CiqualGetByRole(catalog, role, limit, diet, exclude_allergens) ==
    Take(SelectSeq(MapSeq(catalog.ciqual, CiqualItemToFood),
                   LAMBDA f : f.role = role
                              /\ PassesFilters(f, diet, exclude_allergens)),
         limit)

GustarGetByMealType(catalog, meal_type, limit, diet, exclude_allergens, min_health_score) ==
    Take(SelectSeq(MapSeq(SelectSeq(catalog.gustar,
                                    LAMBDA it : it.mealType = meal_type
                                                /\ it.healthScore >= min_health_score),
                          GustarItemToFood),
                   LAMBDA f : PassesFilters(f, diet, exclude_allergens)),
         limit)

PreferredRoles(meal_type) ==
    IF meal_type = "breakfast" THEN <<"carb", "dairy", "fruit">>
    ELSE IF meal_type = "snack" THEN <<"fruit", "dairy">>
    ELSE <<"protein", "carb", "vegetable", "fat">>

\* UnifiedFoodDataAccess.get_foods_for_meal: role -> candidate list; a role
\* without candidates has no key (here: is outside the domain).
get_foods_for_meal(catalog, meal_type, diet, exclude_allergens, source_preference) ==
    LET strategy == determine_source_strategy(source_preference, meal_type)
        ciqual_limit == SourceLimit(1, strategy.ciqual)
        gustar_limit == SourceLimit(0, strategy.gustar)
        off_limit == SourceLimit(0, strategy.off)
        role_foods(role) ==
            (IF ciqual_limit > 0
             THEN CiqualGetByRole(catalog, role, ciqual_limit, diet, exclude_allergens)
             ELSE <<>>)
            \o (IF gustar_limit > 0
                   /\ (meal_type \in {"lunch", "dinner"} \/ source_preference = "recipes")
                THEN GustarGetByMealType(catalog, meal_type, gustar_limit, diet,
                                         exclude_allergens, 60)
                ELSE <<>>)
        roles == SeqToSet(PreferredRoles(meal_type))
    IN  [role \in {r \in roles : role_foods(r) # <<>>} |-> role_foods(role)]

\* CiqualDataSource._load_data, GustartDataSource._load_data: the cached
\* data, read from the file on the first call (<<data>>; None before)
_load_data(cached, file) == IF cached = None THEN <<file>> ELSE cached

\* the data access held by a new MealPlanSolver: nothing loaded yet, no
\* client of the packaged-goods source created yet (off: its _client)
UnifiedFoodDataAccess ==
    [provider |-> "unified", ciqual |-> None, gustar |-> None, off |-> None]

\* the condition under which get_foods_for_meal queries the recipe source
GustarQueried(meal_type, source_preference) ==
    /\ SourceLimit(0, determine_source_strategy(source_preference, meal_type).gustar) > 0
    /\ (meal_type \in {"lunch", "dinner"} \/ source_preference = "recipes")

\* the data access after a get_foods_for_meal call: the sources it queried
\* have loaded their data
DataAfterCall(data_access, catalog, meal_type, source_preference) ==
    IF data_access.provider # "unified" THEN data_access
    ELSE [data_access EXCEPT
             !.ciqual = _load_data(@, catalog.ciqual),
             !.gustar = IF GustarQueried(meal_type, source_preference)
                        THEN _load_data(@, catalog.gustar) ELSE @]

\* what the sources of the data access work on: their cache, or the file
DataCatalog(data_access, catalog) ==
    [ciqual |-> _load_data(data_access.ciqual, catalog.ciqual)[1],
     gustar |-> _load_data(data_access.gustar, catalog.gustar)[1]]

\* UnifiedFoodDataAccess.get_by_id: <<food>>, or <<>> when it is not found
get_by_id(catalog, food_id) ==
    MapSeq(SelectSeq(catalog.ciqual, LAMBDA item : item.id = food_id), CiqualItemToFood)
    \o MapSeq(SelectSeq(catalog.gustar, LAMBDA item : item.id = food_id), GustarItemToFood)

-----------------------------------------------------------------------------
(* solver.QuantityCalculator                                               *)

calculate_grams_unclamped(food, target_calories, min_grams, max_grams) ==
    IF RLe(food.macros_per_100g.calories, Zero) THEN Zero
    ELSE Round1(RMul(RDiv(target_calories, food.macros_per_100g.calories), R(100)))

calculate_grams_unrounded(food, target_calories, min_grams, max_grams) ==
    IF RLe(food.macros_per_100g.calories, Zero) THEN Zero
    ELSE LET grams0 == RMul(RDiv(target_calories, food.macros_per_100g.calories), R(100))
             grams1 == IF min_grams # None THEN RMax(grams0, min_grams) ELSE grams0
         IN  IF max_grams # None THEN RMin(grams1, max_grams) ELSE grams1

\* food.min_portion_g / max_portion_g are always passed (never None) by
\* compose_meal; None is accepted as in the signature.
calculate_grams_for_calories(food, target_calories, min_grams, max_grams) ==
    IF RLe(food.macros_per_100g.calories, Zero) THEN Zero
    ELSE LET grams0 == RMul(RDiv(target_calories, food.macros_per_100g.calories), R(100))
             grams1 == IF min_grams # None THEN RMax(grams0, min_grams) ELSE grams0
             grams2 == IF max_grams # None THEN RMin(grams1, max_grams) ELSE grams1
         IN  Round1(grams2)

compute_macros_per_100g(food, grams) == food.macros_per_100g

compute_macros_for_grams(food, grams) ==
    MacrosScale(food.macros_per_100g, RDiv(grams, R(100)))

role_weights(role) ==
    CASE role = "protein" -> 35
      [] role = "carb" -> 40
      [] role = "vegetable" -> 10
      [] role = "fat" -> 15
      [] role = "fruit" -> 20
      [] role = "dairy" -> 25
      [] role = "drink" -> 5
      [] role = "seasoning" -> 0
      [] OTHER -> 10

RECURSIVE SumWeights(_)
SumWeights(roles) ==
    IF roles = <<>> THEN 0 ELSE role_weights(Head(roles)) + SumWeights(Tail(roles))

distribute_calories_by_roles(target_calories, roles) ==
    LET total_weight == SumWeights(roles)
    IN  [role \in SeqToSet(roles) |->
            RMul(Norm(role_weights(role), total_weight), target_calories)]

-----------------------------------------------------------------------------
(* solver.MealComposer                                                     *)

_get_roles_for_meal_type(meal_type) ==
    IF meal_type = "breakfast" THEN <<"carb", "dairy", "fruit">>
    ELSE IF meal_type = "snack" THEN <<"fruit", "dairy">>
    ELSE <<"protein", "carb", "vegetable">>

_select_food_first(candidates, used_foods) == Head(candidates)

\* candidates is non-empty at the only call site
_select_food(candidates, used_foods) ==
    LET unused == SelectSeq(candidates, LAMBDA f : f.id \notin used_foods)
    IN  IF unused # <<>> THEN Head(unused) ELSE Head(candidates)

MealComponent(food_id, source, name, grams, computed_macros, role) ==
    [food_id |-> food_id, source |-> source, name |-> name, grams |-> grams,
     computed_macros |-> computed_macros, role |-> role]

MealComponentZeroAllowed(c) == c.grams[1] >= 0 /\ MacrosValid(c.computed_macros)

\* pydantic validation of MealComponent: grams gt 0, Macros fields ge 0
MealComponentValid(c) == c.grams[1] > 0 /\ MacrosValid(c.computed_macros)

RECURSIVE SumCalories(_)
SumCalories(components) ==
    IF components = <<>> THEN Zero
    ELSE RAdd(Head(components).computed_macros.calories, SumCalories(Tail(components)))

_adjust_quantities_unscaled(components, target_calories) ==
    IF components = <<>> THEN [raised |-> FALSE, components |-> components]
    ELSE LET current_total == SumCalories(components)
         IN  IF RLe(current_total, Zero)
             THEN [raised |-> FALSE, components |-> components]
             ELSE LET adjustment_factor == RDiv(target_calories, current_total)
                      adjusted ==
                          [i \in 1..Len(components) |->
                              LET comp == components[i]
                              IN  MealComponent(comp.food_id, comp.source, comp.name,
                                      Round1(RMul(comp.grams, adjustment_factor)),
                                      comp.computed_macros,
                                      comp.role)]
                  IN  [raised |-> \E i \in 1..Len(adjusted) : ~MealComponentValid(adjusted[i]),
                       components |-> adjusted]

\* [raised, components]: raised when building an adjusted MealComponent fails
_adjust_quantities(components, target_calories) ==
    IF components = <<>> THEN [raised |-> FALSE, components |-> components]
    ELSE LET current_total == SumCalories(components)
         IN  IF RLe(current_total, Zero)
             THEN [raised |-> FALSE, components |-> components]
             ELSE LET adjustment_factor == RDiv(target_calories, current_total)
                      adjusted ==
                          [i \in 1..Len(components) |->
                              LET comp == components[i]
                              IN  MealComponent(comp.food_id, comp.source, comp.name,
                                      Round1(RMul(comp.grams, adjustment_factor)),
                                      MacrosScale(comp.computed_macros, adjustment_factor),
                                      comp.role)]
                  IN  [raised |-> \E i \in 1..Len(adjusted) : ~MealComponentValid(adjusted[i]),
                       components |-> adjusted]

AppendComponentAlways(role, candidates, acc, food, grams) ==
    [components |-> Append(acc.components,
                      MealComponent(food.id, food.source, food.name, grams,
                                    compute_macros_for_grams(food, grams), role)),
     used_foods |-> acc.used_foods \cup {food.id},
     trace |-> Append(acc.trace,
                      [role |-> role,
                       candidates |-> MapSeq(candidates, LAMBDA f : f.id),
                       used_before |-> acc.used_foods,
                       chosen |-> food.id,
                       grams |-> grams,
                       built |-> TRUE])]

\* `components.append(component); used_foods.add(food.id)`, or `continue`
\* when grams <= 0; trace records the _select_food call and the grams
\* computed for it
AppendComponent(role, candidates, acc, food, grams) ==
    IF grams[1] <= 0
    THEN [acc EXCEPT !.trace =
             Append(@, [role |-> role,
                        candidates |-> MapSeq(candidates, LAMBDA f : f.id),
                        used_before |-> acc.used_foods,
                        chosen |-> food.id,
                        grams |-> grams,
                        built |-> FALSE])]
    ELSE [components |-> Append(acc.components,
                            MealComponent(food.id, food.source, food.name, grams,
                                          compute_macros_for_grams(food, grams), role)),
          used_foods |-> acc.used_foods \cup {food.id},
          trace |-> Append(acc.trace,
                           [role |-> role,
                            candidates |-> MapSeq(candidates, LAMBDA f : f.id),
                            used_before |-> acc.used_foods,
                            chosen |-> food.id,
                            grams |-> grams,
                            built |-> TRUE])]

\* the quantity of the selected food for the role's share of the calories
BuildComponent(role, candidates, role_target_cal, acc, food) ==
    AppendComponent(role, candidates, acc, food,
        calculate_grams_for_calories(food, role_target_cal,
                                     food.min_portion_g, food.max_portion_g))

\* one pass of the loop for a role that has candidates
ComposeRole(role, candidates, role_target_cal, acc) ==
    BuildComponent(role, candidates, role_target_cal, acc,
                   _select_food(candidates, acc.used_foods))

\* the loop `for role in roles` of compose_meal, from role index i on;
\* acc = [components, used_foods, trace]
RECURSIVE ComposeRoles(_, _, _, _, _)
ComposeRoles(roles, i, foods_by_role, calorie_distribution, acc) ==
    IF i > Len(roles) THEN acc
    ELSE ComposeRoles(roles, i + 1, foods_by_role, calorie_distribution,
             IF roles[i] \notin DOMAIN foods_by_role THEN acc
             ELSE ComposeRole(roles[i], foods_by_role[roles[i]],
                              calorie_distribution[roles[i]], acc))

ComposedMeal(meal_type, components, target_macros) ==
    [meal_type |-> meal_type, components |-> components, target_macros |-> target_macros]

ComposedMealAny(meal) == TRUE

\* pydantic validation of ComposedMeal: components min_length 1
ComposedMealValid(meal) == Len(meal.components) >= 1

RECURSIVE SumMacros(_)
SumMacros(components) ==
    IF components = <<>> THEN MacrosZero
    ELSE MacrosAdd(SumMacros(SubSeq(components, 1, Len(components) - 1)),
                   components[Len(components)].computed_macros)

\* ComposedMeal.actual_macros
actual_macros(meal) == SumMacros(meal.components)

\* step 6 of compose_meal: the ComposedMeal, or the validation error raised
\* while building it.  Result: status "ok" with the meal, or "raised" with
\* the error; used_foods is the set after the call (the caller's set is
\* mutated in place).  adjusted.components are the components of the meal.
ComposeResult(targets, loop, adjusted) ==
    [status |-> IF adjusted.raised \/ ~ComposedMealValid(adjusted) THEN "raised" ELSE "ok",
     error |-> IF adjusted.raised THEN "ValidationError: grams"
               ELSE IF ~ComposedMealValid(adjusted) THEN "ValidationError: components"
               ELSE "",
     meal |-> ComposedMeal(targets.meal_type, adjusted.components,
                           Macros(targets.target_calories,
                                  OrZero(targets.target_proteins),
                                  OrZero(targets.target_carbs),
                                  OrZero(targets.target_fats), None)),
     used_foods |-> loop.used_foods,
     trace |-> loop.trace]

\* step 5 of compose_meal
ComposeAdjust(targets, loop) ==
    ComposeResult(targets, loop,
                  _adjust_quantities(loop.components, targets.target_calories))

compose_meal_with_new_set(foods_by_role, targets, used_foods) ==
    ComposeAdjust(targets,
        ComposeRoles(_get_roles_for_meal_type(targets.meal_type), 1,
            foods_by_role,
            distribute_calories_by_roles(targets.target_calories,
                                         _get_roles_for_meal_type(targets.meal_type)),
            [components |-> <<>>, used_foods |-> {}, trace |-> <<>>]))

\* compose_meal from the answer foods_by_role of self.data on: steps 2 to 6
compose_meal_with(foods_by_role, targets, used_foods) ==
    ComposeAdjust(targets,
        ComposeRoles(_get_roles_for_meal_type(targets.meal_type), 1,
            foods_by_role,
            distribute_calories_by_roles(targets.target_calories,
                                         _get_roles_for_meal_type(targets.meal_type)),
            [components |-> <<>>,
             used_foods |-> IF used_foods = None THEN {} ELSE used_foods[1],
             trace |-> <<>>]))

\* targets = [meal_type, target_calories, target_proteins, target_carbs,
\* target_fats]; used_foods is the caller's set, or None.
compose_meal(catalog, targets, diet, exclude_allergens, used_foods, source_preference) ==
    compose_meal_with(get_foods_for_meal(catalog, targets.meal_type, diet,
                                         exclude_allergens, source_preference),
                      targets, used_foods)

-----------------------------------------------------------------------------
(* schemas: construction-time validation of the constraints                *)

Pcts(dist) == <<dist.breakfast_pct, dist.lunch_pct, dist.snack_pct, dist.dinner_pct>>

validate_total_loose(dist) ==
    LET total == RAdd(RAdd(RAdd(dist.breakfast_pct, dist.lunch_pct), dist.snack_pct),
                      dist.dinner_pct)
    IN  ~RGt(RAbs(RSub(total, R(100))), R(10))

\* MealDistribution.validate_total: TRUE when construction succeeds
validate_total(dist) ==
    LET total == RAdd(RAdd(RAdd(dist.breakfast_pct, dist.lunch_pct), dist.snack_pct),
                      dist.dinner_pct)
    IN  ~RGt(RAbs(RSub(total, R(100))), <<1, 10>>)

\* Field(ge=0, le=100) on the four percentages, then validate_total
MealDistributionValid(dist) ==
    /\ \A i \in 1..4 : RLe(Zero, Pcts(dist)[i]) /\ RLe(Pcts(dist)[i], R(100))
    /\ validate_total(dist)

\* NutritionTarget: calories gt 0, optional macros ge 0, tolerance in [0, 20]
NutritionTargetValid(t) ==
    /\ RGt(t.calories, Zero)
    /\ \A x \in {t.proteins, t.carbs, t.fats} : x # None => RLe(Zero, x)
    /\ RLe(Zero, t.calorie_tolerance_pct) /\ RLe(t.calorie_tolerance_pct, R(20))

\* UserConstraints: num_days in [1, 14], cheat_meal_day None or in [0, 6]
UserConstraintsValid(c) ==
    /\ NutritionTargetValid(c.daily_target)
    /\ MealDistributionValid(c.meal_distribution)
    /\ c.num_days >= 1 /\ c.num_days <= 14
    /\ (c.cheat_meal_day # None => c.cheat_meal_day[1] >= 0 /\ c.cheat_meal_day[1] <= 6)

-----------------------------------------------------------------------------
(* solver.MealPlanSolver: helpers                                          *)

SlotPct(dist, meal_type) ==
    CASE meal_type = "breakfast" -> dist.breakfast_pct
      [] meal_type = "lunch" -> dist.lunch_pct
      [] meal_type = "snack" -> dist.snack_pct
      [] meal_type = "dinner" -> dist.dinner_pct

\* `(x or 0) * pct / 100 if x else None`
SlotMacro(x, pct) ==
    IF Truthy(x) THEN RDiv(RMul(OrZero(x), pct), R(100)) ELSE None

_compute_daily_targets(constraints) ==
    LET dist == constraints.meal_distribution
        daily == constraints.daily_target
    IN  [meal_type \in SeqToSet(MealTypes) |->
            [calories |-> RDiv(RMul(daily.calories, SlotPct(dist, meal_type)), R(100)),
             proteins |-> SlotMacro(daily.proteins, SlotPct(dist, meal_type)),
             carbs |-> SlotMacro(daily.carbs, SlotPct(dist, meal_type)),
             fats |-> SlotMacro(daily.fats, SlotPct(dist, meal_type))]]

CheatFactor == <<13, 10>>

_adjust_for_cheat_day(targets) ==
    [meal_type \in DOMAIN targets |->
        [calories |-> RMul(targets[meal_type].calories, CheatFactor),
         proteins |-> targets[meal_type].proteins,
         carbs |-> targets[meal_type].carbs,
         fats |-> targets[meal_type].fats]]

IsCheatDayFrom(constraints, day_index) ==
    /\ constraints.include_cheat_meal
    /\ constraints.cheat_meal_day # None
    /\ constraints.cheat_meal_day[1] <= day_index

\* `constraints.include_cheat_meal and constraints.cheat_meal_day == day_index`
IsCheatDay(constraints, day_index) ==
    constraints.include_cheat_meal /\ constraints.cheat_meal_day = <<day_index>>

DayDeviationFraction(day, constraints) ==
    RDiv(RAbs(RSub(day.daily_totals.calories, constraints.daily_target.calories)),
         constraints.daily_target.calories)

\* deviation in percent of a day's calories from the daily target
DayDeviation(day, constraints) ==
    RMul(RDiv(RAbs(RSub(day.daily_totals.calories, constraints.daily_target.calories)),
              constraints.daily_target.calories), R(100))

_validate_plan_boosted(days, constraints) ==
    LET tolerance == constraints.daily_target.calorie_tolerance_pct
        target(day) == IF day.is_cheat_day
                       THEN RMul(constraints.daily_target.calories, <<13, 10>>)
                       ELSE constraints.daily_target.calories
        deviation(day) ==
            RMul(RDiv(RAbs(RSub(day.daily_totals.calories, target(day))), target(day)),
                 R(100))
        bad == SelectSeq(days, LAMBDA day : RGt(deviation(day), tolerance))
        errors == MapSeq(bad, LAMBDA day : day.day + 1)
    IN  [is_valid |-> Len(errors) = 0, errors |-> errors]

\* [is_valid, errors]; an error message is represented by its day number
_validate_plan(days, constraints) ==
    LET tolerance == constraints.daily_target.calorie_tolerance_pct
        bad == SelectSeq(days, LAMBDA day : RGt(DayDeviation(day, constraints), tolerance))
        errors == MapSeq(bad, LAMBDA day : day.day + 1)
    IN  [is_valid |-> Len(errors) = 0, errors |-> errors]

RECURSIVE SumDailyTotalsAfterFirst(_)
SumDailyTotalsAfterFirst(ds) ==
    IF Len(ds) <= 1 THEN MacrosZero
    ELSE MacrosAdd(SumDailyTotalsAfterFirst(SubSeq(ds, 1, Len(ds) - 1)),
                   ds[Len(ds)].daily_totals)

RECURSIVE SumDailyTotals(_)
SumDailyTotals(ds) ==
    IF ds = <<>> THEN MacrosZero
    ELSE MacrosAdd(SumDailyTotals(SubSeq(ds, 1, Len(ds) - 1)), ds[Len(ds)].daily_totals)

\* steps 3-5 of solve: totals, averages, validation, MealPlan
BuildPlan(ds, constraints) ==
    LET weekly_totals == SumDailyTotals(ds)
        weekly_averages == IF ds # <<>> THEN MacrosScale(weekly_totals, <<1, Len(ds)>>)
                           ELSE MacrosZero
        v == _validate_plan(ds, constraints)
    IN  [constraints |-> constraints, days |-> ds,
         weekly_totals |-> weekly_totals, weekly_averages |-> weekly_averages,
         is_valid |-> v.is_valid, validation_errors |-> v.errors]

no_suggestions == <<>>

relaxation_suggestions ==
    <<"Essayez d'augmenter la tolerance calorique",
      "Reduisez les restrictions alimentaires">>

SuccessOutputIndex(plan, n_iterations) ==
    [returned |-> TRUE, success |-> TRUE, plan |-> <<plan>>,
     infeasibility_reason |-> None, relaxation_suggestions |-> <<>>,
     iterations |-> n_iterations - 1]

\* the SolverOutput of the try block
SuccessOutput(plan, n_iterations) ==
    [returned |-> TRUE, success |-> TRUE, plan |-> <<plan>>,
     infeasibility_reason |-> None, relaxation_suggestions |-> <<>>,
     iterations |-> n_iterations]

FailureOutputPartial(e, n_iterations) ==
    [returned |-> TRUE, success |-> FALSE, plan |-> <<[days |-> <<>>]>>,
     infeasibility_reason |-> <<e>>,
     relaxation_suggestions |-> relaxation_suggestions,
     iterations |-> n_iterations]

\* the SolverOutput of `except Exception as e`
FailureOutput(e, n_iterations) ==
    [returned |-> TRUE, success |-> FALSE, plan |-> None,
     infeasibility_reason |-> <<e>>,
     relaxation_suggestions |-> relaxation_suggestions,
     iterations |-> n_iterations]

NoOutput ==
    [returned |-> FALSE, success |-> FALSE, plan |-> None,
     infeasibility_reason |-> None, relaxation_suggestions |-> <<>>,
     iterations |-> 0]

-----------------------------------------------------------------------------
(* validation.MealPlanValidator                                            *)

RECURSIVE Concat(_)
Concat(ss) == IF ss = <<>> THEN <<>> ELSE Head(ss) \o Concat(Tail(ss))

ValidationError(severity, code, day) ==
    [severity |-> severity, code |-> code, day |-> day]

\* _recalculate_meal_macros: from the provider's profile and the stored grams,
\* or the stored macros when the food is not found
RECURSIVE _recalculate_meal_macros(_, _)
_recalculate_meal_macros(catalog, components) ==
    IF components = <<>> THEN MacrosZero
    ELSE LET component == components[Len(components)]
             food == get_by_id(catalog, component.food_id)
             rest == _recalculate_meal_macros(catalog,
                         SubSeq(components, 1, Len(components) - 1))
         IN  IF food # <<>>
             THEN MacrosAdd(rest, MacrosScale(food[1].macros_per_100g,
                                              RDiv(component.grams, R(100))))
             ELSE MacrosAdd(rest, component.computed_macros)

RECURSIVE _recalculate_daily_macros(_, _)
_recalculate_daily_macros(catalog, meals) ==
    IF meals = <<>> THEN MacrosZero
    ELSE MacrosAdd(_recalculate_daily_macros(catalog, SubSeq(meals, 1, Len(meals) - 1)),
                   _recalculate_meal_macros(catalog, meals[Len(meals)].meal.components))

\* relative difference beyond 1 %
Mismatch(reported, recalculated) ==
    /\ RGt(reported, Zero)
    /\ RGt(RDiv(RAbs(RSub(reported, recalculated)), reported), <<1, 100>>)

\* warnings added by _check_macro_consistency
_check_macro_consistency(day_plan, recalculated) ==
    (IF Mismatch(day_plan.daily_totals.calories, recalculated.calories)
     THEN <<ValidationError("warning", "MACRO_MISMATCH_CALORIES", day_plan.day)>>
     ELSE <<>>)
    \o (IF Mismatch(day_plan.daily_totals.proteins, recalculated.proteins)
        THEN <<ValidationError("warning", "MACRO_MISMATCH_PROTEINS", day_plan.day)>>
        ELSE <<>>)

\* returned deviation_pct of _check_calorie_tolerance (signed)
deviation_pct(day_plan, constraints) ==
    IF RLe(constraints.daily_target.calories, Zero) THEN Zero
    ELSE RMul(RDiv(RSub(day_plan.daily_totals.calories, constraints.daily_target.calories),
                   constraints.daily_target.calories), R(100))

_check_calorie_tolerance_fraction(day_plan, constraints) ==
    LET tolerance == RDiv(constraints.daily_target.calorie_tolerance_pct, R(100))
        dev == RAbs(deviation_pct(day_plan, constraints))
    IN  IF RLe(constraints.daily_target.calories, Zero) THEN <<>>
        ELSE IF RGt(dev, tolerance)
        THEN <<ValidationError("error", "CALORIE_OUT_OF_TOLERANCE", day_plan.day)>>
        ELSE IF RGt(dev, RMul(tolerance, <<8, 10>>))
        THEN <<ValidationError("warning", "CALORIE_NEAR_LIMIT", day_plan.day)>>
        ELSE <<>>

_check_calorie_tolerance_inclusive(day_plan, constraints) ==
    LET tolerance == constraints.daily_target.calorie_tolerance_pct
        dev == RAbs(deviation_pct(day_plan, constraints))
    IN  IF RLe(constraints.daily_target.calories, Zero) THEN <<>>
        ELSE IF ~RLt(dev, tolerance)
        THEN <<ValidationError("error", "CALORIE_OUT_OF_TOLERANCE", day_plan.day)>>
        ELSE IF RGt(dev, RMul(tolerance, <<8, 10>>))
        THEN <<ValidationError("warning", "CALORIE_NEAR_LIMIT", day_plan.day)>>
        ELSE <<>>

\* the error or warning added by _check_calorie_tolerance
_check_calorie_tolerance(day_plan, constraints) ==
    LET tolerance == constraints.daily_target.calorie_tolerance_pct
        dev == RAbs(deviation_pct(day_plan, constraints))
    IN  IF RLe(constraints.daily_target.calories, Zero) THEN <<>>
        ELSE IF RGt(dev, tolerance)
        THEN <<ValidationError("error", "CALORIE_OUT_OF_TOLERANCE", day_plan.day)>>
        ELSE IF RGt(dev, RMul(tolerance, <<8, 10>>))
        THEN <<ValidationError("warning", "CALORIE_NEAR_LIMIT", day_plan.day)>>
        ELSE <<>>

allergen_keywords(allergen) ==
    CASE allergen = "gluten" -> {"ble", "pain", "pates", "farine", "seigle"}
      [] allergen = "dairy" -> {"lait", "fromage", "yaourt", "creme", "beurre"}
      [] allergen = "eggs" -> {"oeuf"}
      [] allergen = "nuts" -> {"noix", "amande", "noisette", "cajou"}
      [] allergen = "peanuts" -> {"arachide", "cacahuete"}
      [] allergen = "soy" -> {"soja"}
      [] allergen = "fish" -> {"poisson", "saumon", "thon", "cabillaud"}
      [] allergen = "shellfish" -> {"crevette", "crabe", "homard", "moule"}
      [] allergen = "sesame" -> {"sesame"}
      [] OTHER -> {}

\* all components of a day, in meal then component order
DayComponents(day_plan) ==
    Concat(MapSeq(day_plan.meals, LAMBDA pm : pm.meal.components))

Allergens ==
    <<"gluten", "dairy", "eggs", "nuts", "peanuts", "soy", "fish", "shellfish",
      "sesame", "sulfites">>

\* errors added by _check_allergens; the set `forbidden` is walked in the
\* order of the Allergen enumeration
_check_allergens(day_plan, constraints) ==
    LET forbidden == constraints.allergies \cup constraints.intolerances
        hits(component) ==
            MapSeq(SelectSeq(Allergens,
                             LAMBDA a : a \in forbidden
                                        /\ component.name \cap allergen_keywords(a) # {}),
                   LAMBDA a : ValidationError("error", "ALLERGEN_PRESENT", day_plan.day))
    IN  Concat(MapSeq(DayComponents(day_plan), hits))

meat_keywords == {"poulet", "boeuf", "porc", "agneau", "veau", "canard", "dinde"}
fish_keywords == {"poisson", "saumon", "thon", "cabillaud", "sardine", "maquereau"}
animal_keywords ==
    meat_keywords \cup fish_keywords
    \cup {"oeuf", "lait", "fromage", "yaourt", "beurre", "creme"}

\* errors added by _check_diet_compliance
_check_diet_compliance(day_plan, constraints) ==
    LET diet == constraints.diet_type
        violation(component) ==
            \/ diet = "vegetarian"
               /\ component.name \cap (meat_keywords \cup fish_keywords) # {}
            \/ diet = "vegan" /\ component.name \cap animal_keywords # {}
            \/ diet = "pescatarian" /\ component.name \cap meat_keywords # {}
    IN  IF diet = "omnivore" THEN <<>>
        ELSE MapSeq(SelectSeq(DayComponents(day_plan), violation),
                    LAMBDA c : ValidationError("error", "DIET_VIOLATION", day_plan.day))

\* everything result.add_error / result.add_warning receives for one day
DayFindings(catalog, day_plan, constraints) ==
    _check_macro_consistency(day_plan, _recalculate_daily_macros(catalog, day_plan.meals))
    \o _check_calorie_tolerance(day_plan, constraints)
    \o _check_allergens(day_plan, constraints)
    \o _check_diet_compliance(day_plan, constraints)

RECURSIVE SumAbsDeviation(_, _)
SumAbsDeviation(ds, constraints) ==
    IF ds = <<>> THEN Zero
    ELSE RAdd(RAbs(deviation_pct(Head(ds), constraints)),
              SumAbsDeviation(Tail(ds), constraints))

RECURSIVE MaxAbsDeviation(_, _)
MaxAbsDeviation(ds, constraints) ==
    IF ds = <<>> THEN Zero
    ELSE RMax(RAbs(deviation_pct(Head(ds), constraints)),
              MaxAbsDeviation(Tail(ds), constraints))

validate_no_finding(catalog, plan) ==
    LET findings == Concat(MapSeq(plan.days,
                        LAMBDA d : DayFindings(catalog, d, plan.constraints)))
        errors == SelectSeq(findings, LAMBDA f : f.severity = "error")
        warnings == SelectSeq(findings, LAMBDA f : f.severity = "warning")
        num_days == Len(plan.days)
    IN  [done |-> TRUE,
         is_valid |-> findings = <<>>,
         errors |-> errors,
         warnings |-> warnings,
         total_calorie_deviation_pct |->
             IF num_days > 0
             THEN RDiv(SumAbsDeviation(plan.days, plan.constraints), R(num_days))
             ELSE Zero,
         max_daily_deviation_pct |->
             IF num_days > 0 THEN MaxAbsDeviation(plan.days, plan.constraints) ELSE Zero,
         allergen_violations |->
             Len(SelectSeq(errors, LAMBDA f : f.code = "ALLERGEN_PRESENT")),
         diet_violations |->
             Len(SelectSeq(errors, LAMBDA f : f.code = "DIET_VIOLATION"))]

\* add_error sets is_valid to False; add_warning leaves it alone
validate(catalog, plan) ==
    LET findings == Concat(MapSeq(plan.days,
                        LAMBDA d : DayFindings(catalog, d, plan.constraints)))
        errors == SelectSeq(findings, LAMBDA f : f.severity = "error")
        warnings == SelectSeq(findings, LAMBDA f : f.severity = "warning")
        num_days == Len(plan.days)
    IN  [done |-> TRUE,
         is_valid |-> errors = <<>>,
         errors |-> errors,
         warnings |-> warnings,
         total_calorie_deviation_pct |->
             IF num_days > 0
             THEN RDiv(SumAbsDeviation(plan.days, plan.constraints), R(num_days))
             ELSE Zero,
         max_daily_deviation_pct |->
             IF num_days > 0 THEN MaxAbsDeviation(plan.days, plan.constraints) ELSE Zero,
         allergen_violations |->
             Len(SelectSeq(errors, LAMBDA f : f.code = "ALLERGEN_PRESENT")),
         diet_violations |->
             Len(SelectSeq(errors, LAMBDA f : f.code = "DIET_VIOLATION"))]

NoValidation ==
    [done |-> FALSE, is_valid |-> TRUE, errors |-> <<>>, warnings |-> <<>>,
     total_calorie_deviation_pct |-> Zero, max_daily_deviation_pct |-> Zero,
     allergen_violations |-> 0, diet_violations |-> 0]

-----------------------------------------------------------------------------
(* Bounds and input domains                                                *)

MaxDays == 2

\* Catalogue data.  Every profile has proteins = carbs = calories / 10,
\* fats = calories / 50 and fiber = calories / 100, which keeps the exact sums
\* of a plan within TLC's integers.
Profile(cal) == Macros(R(cal), <<cal, 10>>, <<cal, 10>>, Norm(cal, 50), Norm(cal, 100))

CiqualItem(id, name, group, role, cal) ==
    [id |-> id, name |-> name, group |-> group, role |-> role,
     macros |-> IF cal = 0 THEN Macros(Zero, Zero, Zero, Zero, None) ELSE Profile(cal)]

GustarItem(id, name, ingredients, mealType, role, healthScore, cal) ==
    [id |-> id, name |-> name, ingredients |-> ingredients, description |-> {},
     mealType |-> mealType, role |-> role, healthScore |-> healthScore,
     nutrition |-> Profile(cal)]

\* a catalogue with several foods per role, gluten and dairy items, a
\* gluten-free flour, a zero-calorie item and recipes
CatalogFull ==
    [ciqual |-> <<
        CiqualItem("ciqual_pain", {"pain"}, {"cereale"}, "carb", 300),
        CiqualItem("ciqual_farine_riz", {"farine", "riz"}, {"cereale"}, "carb", 400),
        CiqualItem("ciqual_riz", {"riz"}, {"cereale"}, "carb", 100),
        CiqualItem("ciqual_lait", {"lait"}, {"lait"}, "dairy", 50),
        CiqualItem("ciqual_pomme", {"pomme"}, {"fruit"}, "fruit", 50),
        CiqualItem("ciqual_banane", {"banane"}, {"fruit"}, "fruit", 100),
        CiqualItem("ciqual_poulet", {"poulet"}, {"viande"}, "protein", 200),
        CiqualItem("ciqual_lentille", {"lentille"}, {"legumineuse"}, "protein", 100),
        CiqualItem("ciqual_brocoli", {"brocoli"}, {"legume"}, "vegetable", 50),
        CiqualItem("ciqual_sel", {"sel"}, {}, "vegetable", 0)>>,
     gustar |-> <<
        GustarItem("gustar_1", {"salade"}, {}, "lunch", "vegetable", 80, 300),
        GustarItem("gustar_2", {"gratin"}, {"fromage", "farine"}, "dinner", "protein", 70, 600),
        GustarItem("gustar_3", {"burger"}, {"pain", "boeuf"}, "dinner", "protein", 40, 900),
        GustarItem("gustar_4", {"porridge"}, {"lait"}, "breakfast", "carb", 90, 300)>>]

\* a catalogue with animal products only; its two lunch recipes are the only
\* candidates of the carb and vegetable roles
CatalogSparse ==
    [ciqual |-> <<
        CiqualItem("ciqual_poulet", {"poulet"}, {"viande"}, "protein", 200),
        CiqualItem("ciqual_lait", {"lait"}, {"lait"}, "dairy", 50)>>,
     gustar |-> <<
        GustarItem("gustar_5", {"omelette"}, {"oeuf"}, "lunch", "protein", 80, 300),
        GustarItem("gustar_6", {"quiche"}, {"oeuf"}, "lunch", "protein", 75, 300)>>]

Catalogs == {CatalogFull, CatalogSparse}

Distribution(b, l, s, d) ==
    [breakfast_pct |-> b, lunch_pct |-> l, snack_pct |-> s, dinner_pct |-> d]

\* sums 100, 100 with an empty slot, 100.1, 90 and 110
Distributions ==
    {Distribution(R(25), R(35), R(10), R(30)),
     Distribution(R(30), R(40), R(0), R(30)),
     Distribution(R(25), R(35), R(10), <<301, 10>>),
     Distribution(R(25), R(35), R(10), R(20)),
     Distribution(R(25), R(35), R(20), R(30))}

\* calories, proteins, carbs, fats, calorie_tolerance_pct
DailyTargets ==
    {<<R(2000), R(75), R(250), R(65), R(10)>>, <<R(100), R(200), None, None, R(1)>>}

Diets == {"omnivore", "vegan"}

\* allergies, intolerances
Exclusions == {<<{}, {}>>, <<{"gluten"}, {}>>, <<{"gluten"}, {"dairy"}>>}

Preferences == {"balanced", "recipes"}

\* include_cheat_meal, cheat_meal_day
CheatSettings ==
    {<<FALSE, None>>, <<FALSE, <<0>>>>, <<TRUE, None>>}
    \cup {<<TRUE, <<d>>>> : d \in 0..(MaxDays - 1)}

-----------------------------------------------------------------------------
(* State                                                                   *)

VARIABLES
    catalog,         \* data files of the Candidate Provider
    data,            \* solver.data: the data access and what its sources loaded
    tasks,           \* solve invocations in flight on the one solver instance
    calc,            \* operands and results of Macros operations
    prefer_variety,  \* SolverConfig.prefer_variety
    constraints,     \* the UserConstraints arguments, then the object
    pc,              \* position: new, rejected, ready, day_loop, slot_loop, done, validated
    daily_targets,   \* solve: daily_targets
    days,            \* solve: days
    used_foods,      \* solve: used_foods
    iterations,      \* solve: iterations
    day_index,       \* solve: day_index
    is_cheat_day,    \* solve: is_cheat_day
    day_targets,     \* solve: day_targets
    meals,           \* solve: meals
    daily_total,     \* solve: daily_total
    slot,            \* solve: position in day_targets.items(), 1..4, 5 after the last
    last_call,       \* the latest compose_meal call: arguments and outcome
    output,          \* the SolverOutput returned by solve
    validation       \* the ValidationResult returned by validate

vars == <<catalog, data, tasks, calc, prefer_variety, constraints, pc, daily_targets, days, used_foods,
          iterations, day_index, is_cheat_day, day_targets, meals, daily_total, slot,
          last_call, output, validation>>

NoCall ==
    [status |-> "none", error |-> "", meal |-> ComposedMeal("", <<>>, MacrosZero),
     trace |-> <<>>, exclude_allergens |-> {}, day |-> 0]

Init ==
    /\ catalog \in Catalogs
    /\ data = UnifiedFoodDataAccess
    /\ tasks = <<>>
    /\ calc = <<>>
    /\ prefer_variety \in BOOLEAN
    /\ \E t \in DailyTargets, dist \in Distributions,
          diet \in Diets, ex \in Exclusions, pref \in Preferences,
          n \in 1..MaxDays, cheat \in CheatSettings :
          constraints =
              [daily_target |-> [calories |-> t[1], proteins |-> t[2], carbs |-> t[3],
                                 fats |-> t[4], calorie_tolerance_pct |-> t[5]],
               meal_distribution |-> dist,
               diet_type |-> diet,
               allergies |-> ex[1],
               intolerances |-> ex[2],
               meal_source_preference |-> pref,
               num_days |-> n,
               include_cheat_meal |-> cheat[1],
               cheat_meal_day |-> cheat[2]]
    /\ pc = "new"
    /\ daily_targets = <<>>
    /\ days = <<>>
    /\ used_foods = {}
    /\ iterations = 0
    /\ day_index = 0
    /\ is_cheat_day = FALSE
    /\ day_targets = <<>>
    /\ meals = <<>>
    /\ daily_total = MacrosZero
    /\ slot = 1
    /\ last_call = NoCall
    /\ output = NoOutput
    /\ validation = NoValidation

-----------------------------------------------------------------------------
(* Operations                                                              *)

solveLocals == <<daily_targets, days, used_foods, iterations, day_index, is_cheat_day,
                 day_targets, meals, daily_total, slot>>

\* UserConstraints(...) succeeds
Construct ==
    /\ pc = "new"
    /\ UserConstraintsValid(constraints)
    /\ pc' = "ready"
    /\ UNCHANGED <<catalog, data, tasks, calc, prefer_variety, constraints, solveLocals, last_call, output,
                   validation>>

\* UserConstraints(...) raises a validation error: no object is produced
Reject ==
    /\ pc = "new"
    /\ ~UserConstraintsValid(constraints)
    /\ pc' = "rejected"
    /\ UNCHANGED <<catalog, data, tasks, calc, prefer_variety, constraints, solveLocals, last_call, output,
                   validation>>

\* solve, up to the day loop
SolveStart ==
    /\ pc = "ready"
    /\ iterations' = 0
    /\ daily_targets' = _compute_daily_targets(constraints)
    /\ days' = <<>>
    /\ used_foods' = {}
    /\ day_index' = 0
    /\ pc' = "day_loop"
    /\ UNCHANGED <<catalog, data, tasks, calc, prefer_variety, constraints, is_cheat_day, day_targets, meals,
                   daily_total, slot, last_call, output, validation>>

\* one pass of `for day_index in range(num_days)`, up to the slot loop
BeginDay ==
    /\ pc = "day_loop"
    /\ day_index < constraints.num_days
    /\ iterations' = iterations + 1
    /\ is_cheat_day' = IsCheatDay(constraints, day_index)
    /\ day_targets' = IF IsCheatDay(constraints, day_index)
                      THEN _adjust_for_cheat_day(daily_targets)
                      ELSE daily_targets
    /\ meals' = <<>>
    /\ daily_total' = MacrosZero
    /\ slot' = 1
    /\ pc' = "slot_loop"
    /\ UNCHANGED <<catalog, data, tasks, calc, prefer_variety, constraints, daily_targets, days, used_foods,
                   day_index, last_call, output, validation>>

MealTargets(meal_type, meal_target) ==
    [meal_type |-> meal_type,
     target_calories |-> meal_target.calories,
     target_proteins |-> meal_target.proteins,
     target_carbs |-> meal_target.carbs,
     target_fats |-> meal_target.fats]

ExcludeAllergens(c) == c.allergies \cup c.intolerances

\* the outcome of a compose_meal call as solve sees it
CallOutcome(r, exclude_allergens, day) ==
    [status |-> r.status, error |-> r.error, meal |-> r.meal, trace |-> r.trace,
     exclude_allergens |-> exclude_allergens, day |-> day,
     used_foods |-> r.used_foods]

CurrentCallCarrying ==
    CallOutcome(compose_meal(catalog,
                    MealTargets(MealTypes[slot], day_targets[MealTypes[slot]]),
                    constraints.diet_type,
                    ExcludeAllergens(constraints),
                    <<{c.food_id : c \in SeqToSet(Concat(MapSeq(days, DayComponents)))}>>,
                    constraints.meal_source_preference),
                ExcludeAllergens(constraints), day_index)

\* the compose_meal call of the current slot
CurrentCall ==
    CallOutcome(compose_meal(catalog,
                    MealTargets(MealTypes[slot], day_targets[MealTypes[slot]]),
                    constraints.diet_type,
                    ExcludeAllergens(constraints),
                    IF prefer_variety THEN <<used_foods>> ELSE None,
                    constraints.meal_source_preference),
                ExcludeAllergens(constraints), day_index)

CallRecord(r) ==
    [status |-> r.status, error |-> r.error, meal |-> r.meal, trace |-> r.trace,
     exclude_allergens |-> r.exclude_allergens, day |-> r.day]

PlannedMeal(day, meal) == [day |-> day, meal |-> meal]

DailyPlan(day, ms, totals, cheat) ==
    [day |-> day, meals |-> ms, daily_totals |-> totals, is_cheat_day |-> cheat]

\* the rest of a slot-loop pass after compose_meal returned r, or the
\* `except Exception` branch after it raised
AfterCompose(r) ==
    IF r.status = "ok"
    THEN /\ meals' = Append(meals, PlannedMeal(day_index, r.meal))
         /\ daily_total' = MacrosAdd(daily_total, actual_macros(r.meal))
         /\ used_foods' = IF prefer_variety THEN r.used_foods ELSE used_foods
         /\ slot' = slot + 1
         /\ last_call' = CallRecord(r)
         /\ UNCHANGED <<pc, output>>
    ELSE /\ used_foods' = IF prefer_variety THEN r.used_foods ELSE used_foods
         /\ last_call' = CallRecord(r)
         /\ output' = FailureOutput(r.error, iterations)
         /\ pc' = "done"
         /\ UNCHANGED <<meals, daily_total, slot>>

\* one pass of `for meal_type, meal_target in day_targets.items()`:
\* compose_meal returns and the meal is planned, or it raises (a pydantic
\* validation error) and `except Exception` of solve returns the failure
ComposeMeal ==
    /\ pc = "slot_loop"
    /\ slot <= 4
    /\ AfterCompose(CurrentCall)
    /\ data' = DataAfterCall(data, catalog, MealTypes[slot],
                             constraints.meal_source_preference)
    /\ UNCHANGED <<catalog, tasks, calc, prefer_variety, constraints, daily_targets, days, iterations,
                   day_index, is_cheat_day, day_targets, validation>>

\* the Candidate Provider raises inside compose_meal (reading its data
\* fails); `except Exception` of solve returns the failure output
ProviderRaises ==
    /\ pc = "slot_loop"
    /\ slot <= 4
    /\ last_call' = [NoCall EXCEPT !.status = "raised", !.error = "OSError",
                                  !.exclude_allergens = ExcludeAllergens(constraints),
                                  !.day = day_index]
    /\ output' = FailureOutput("OSError", iterations)
    /\ pc' = "done"
    /\ UNCHANGED <<catalog, data, tasks, calc, prefer_variety, constraints, solveLocals, validation>>

\* end of a day: DailyPlan appended
EndDay ==
    /\ pc = "slot_loop"
    /\ slot = 5
    /\ days' = Append(days, DailyPlan(day_index, meals, daily_total, is_cheat_day))
    /\ day_index' = day_index + 1
    /\ pc' = "day_loop"
    /\ UNCHANGED <<catalog, data, tasks, calc, prefer_variety, constraints, daily_targets, used_foods,
                   iterations, is_cheat_day, day_targets, meals, daily_total, slot,
                   last_call, output, validation>>

\* after the day loop: totals, averages, validation, success output
SolveFinish ==
    /\ pc = "day_loop"
    /\ day_index = constraints.num_days
    /\ output' = SuccessOutput(BuildPlan(days, constraints), iterations)
    /\ pc' = "done"
    /\ UNCHANGED <<catalog, data, tasks, calc, prefer_variety, constraints, solveLocals, last_call, validation>>

\* MealPlanValidator.validate on the plan returned by solve
Validate ==
    /\ pc = "done"
    /\ output.success
    /\ validation' = validate(catalog, output.plan[1])
    /\ pc' = "validated"
    /\ UNCHANGED <<catalog, data, tasks, calc, prefer_variety, constraints, solveLocals, last_call, output>>

Next ==
    \/ Construct
    \/ Reject
    \/ SolveStart
    \/ BeginDay
    \/ ComposeMeal
    \/ ProviderRaises
    \/ EndDay
    \/ SolveFinish
    \/ Validate

Spec == Init /\ [][Next]_vars

-----------------------------------------------------------------------------
(* Macros operations on their own                                          *)

\* operands: required fields zero or positive; fiber absent, present with
\* value 0, or present and positive
MacrosValues ==
    {Macros(cal, <<1, 2>>, R(2), Zero, fib) :
        cal \in {Zero, R(3)}, fib \in {None, Zero, <<3, 2>>}}

\* no solve is in progress
SolveIdle ==
    /\ constraints = None
    /\ pc = "idle"
    /\ daily_targets = <<>>
    /\ days = <<>>
    /\ used_foods = {}
    /\ iterations = 0
    /\ day_index = 0
    /\ is_cheat_day = FALSE
    /\ day_targets = <<>>
    /\ meals = <<>>
    /\ daily_total = MacrosZero
    /\ slot = 1
    /\ last_call = NoCall
    /\ output = NoOutput
    /\ validation = NoValidation

solveVars == <<constraints, pc, solveLocals, last_call, output, validation>>

InitMacros ==
    /\ catalog = CatalogFull
    /\ data = UnifiedFoodDataAccess
    /\ tasks = <<>>
    /\ prefer_variety = TRUE
    /\ SolveIdle
    /\ \E a \in MacrosValues, b \in MacrosValues, c \in MacrosValues :
           calc = [a |-> a, b |-> b, c |-> c, sums |-> None, scaled |-> None]

\* a + b, b + a, (a + b) + c, a + (b + c)
AddMacros ==
    /\ calc.sums = None
    /\ calc' = [calc EXCEPT !.sums =
                    <<[ab |-> MacrosAdd(calc.a, calc.b),
                       ba |-> MacrosAdd(calc.b, calc.a),
                       ab_c |-> MacrosAdd(MacrosAdd(calc.a, calc.b), calc.c),
                       a_bc |-> MacrosAdd(calc.a, MacrosAdd(calc.b, calc.c))]>>]
    /\ UNCHANGED <<catalog, data, tasks, prefer_variety, solveVars>>

\* a.scale(1), a.scale(0)
ScaleMacros ==
    /\ calc.scaled = None
    /\ calc' = [calc EXCEPT !.scaled =
                    <<[one |-> MacrosScale(calc.a, R(1)),
                       zero |-> MacrosScale(calc.a, Zero)]>>]
    /\ UNCHANGED <<catalog, data, tasks, prefer_variety, solveVars>>

NextMacros ==
    \/ AddMacros
    \/ ScaleMacros

SpecMacros == InitMacros /\ [][NextMacros]_vars

-----------------------------------------------------------------------------
(* Several solve invocations on one solver instance                        *)

VarietyDays == 7
StubFoodsPerRole == 20

\* a food of a Candidate Provider stub: the n-th food of a role
StubFood(role, n) ==
    [id |-> <<role, n>>, source |-> "stub", name |-> {},
     macros_per_100g |-> Profile(100), role |-> role,
     allergens |-> {}, diet_compatible |-> {"omnivore"},
     min_portion_g |-> R(DefaultMinPortion),
     max_portion_g |-> R(DefaultMaxPortion)]

\* the stub's get_foods_for_meal: StubFoodsPerRole distinct foods for every
\* role of the slot, whatever the filters
StubFoodsForMeal(meal_type) ==
    [role \in SeqToSet(_get_roles_for_meal_type(meal_type)) |->
        [n \in 1..StubFoodsPerRole |-> StubFood(role, n)]]

\* `await self.data.get_foods_for_meal(...)` of compose_meal, self.data being
\* the data access the composer was built with
ProviderFoods(data_access, files, meal_type, diet, exclude_allergens, source_preference) ==
    IF data_access.provider = "stub" THEN StubFoodsForMeal(meal_type)
    ELSE get_foods_for_meal(DataCatalog(data_access, files), meal_type, diet,
                            exclude_allergens, source_preference)

UserConstraints(t, dist, diet, ex, pref, n, cheat) ==
    [daily_target |-> [calories |-> t[1], proteins |-> t[2], carbs |-> t[3],
                       fats |-> t[4], calorie_tolerance_pct |-> t[5]],
     meal_distribution |-> dist,
     diet_type |-> diet,
     allergies |-> ex[1],
     intolerances |-> ex[2],
     meal_source_preference |-> pref,
     num_days |-> n,
     include_cheat_meal |-> cheat[1],
     cheat_meal_day |-> cheat[2]]

\* the locals of a solve invocation suspended at its first compose_meal
\* call: the pass of day 0 has begun, nothing is planned yet
Task(c) ==
    [constraints |-> c,
     daily_targets |-> _compute_daily_targets(c),
     days |-> <<>>,
     used_foods |-> {},
     iterations |-> 1,
     day_index |-> 0,
     meals |-> <<>>,
     daily_total |-> MacrosZero,
     slot |-> 1,
     output |-> NoOutput]

\* day_targets of the invocation's current day
TaskDayTargets(t) ==
    IF IsCheatDay(t.constraints, t.day_index)
    THEN _adjust_for_cheat_day(t.daily_targets)
    ELSE t.daily_targets

\* the compose_meal call the invocation is suspended at; used is the set
\* its `used_foods` names
TaskCall(data_access, files, variety, t, used) ==
    compose_meal_with(
        ProviderFoods(data_access, files, MealTypes[t.slot], t.constraints.diet_type,
                      ExcludeAllergens(t.constraints),
                      t.constraints.meal_source_preference),
        MealTargets(MealTypes[t.slot], TaskDayTargets(t)[MealTypes[t.slot]]),
        IF variety THEN <<used>> ELSE None)

\* the meal returned by the call is planned
TaskPlanned(t, r, variety) ==
    [t EXCEPT !.meals = Append(@, PlannedMeal(t.day_index, r.meal)),
              !.daily_total = MacrosAdd(@, actual_macros(r.meal)),
              !.used_foods = IF variety THEN r.used_foods ELSE @,
              !.slot = @ + 1]

\* after the last slot: the day is appended, then the next day begins or
\* the plan is built and returned
TaskEndDay(t, ds) ==
    IF t.day_index + 1 < t.constraints.num_days
    THEN [t EXCEPT !.days = ds, !.day_index = @ + 1, !.iterations = @ + 1,
                   !.meals = <<>>, !.daily_total = MacrosZero, !.slot = 1]
    ELSE [t EXCEPT !.days = ds, !.day_index = @ + 1,
                   !.output = SuccessOutput(BuildPlan(ds, t.constraints), t.iterations)]

\* the slot loop goes on, or the day ends
TaskNext(t) ==
    IF t.slot <= 4 THEN t
    ELSE TaskEndDay(t, Append(t.days,
                              DailyPlan(t.day_index, t.meals, t.daily_total,
                                        IsCheatDay(t.constraints, t.day_index))))

\* solve from the return of compose_meal up to the next compose_meal call
\* or to the return of solve; when compose_meal raised, `except Exception`
\* returns the failure output
TaskResume(t, r, variety) ==
    IF r.status # "ok"
    THEN [t EXCEPT !.used_foods = IF variety THEN r.used_foods ELSE @,
                   !.output = FailureOutput(r.error, t.iterations)]
    ELSE TaskNext(TaskPlanned(t, r, variety))

\* the invocation run to its end with no other invocation on the solver
RECURSIVE Solo(_, _, _, _)
Solo(data_access, files, variety, t) ==
    IF t.output.returned THEN t
    ELSE Solo(DataAfterCall(data_access, files, MealTypes[t.slot],
                            t.constraints.meal_source_preference),
              files, variety,
              TaskResume(t, TaskCall(data_access, files, variety, t, t.used_foods),
                         variety))

SharedUsedFoods(ts, i) == UNION {ts[j].used_foods : j \in DOMAIN ts}

\* the set named by `used_foods` in invocation i: a local of its own
TaskUsedFoods(ts, i) == ts[i].used_foods

\* two invocations in flight on a new solver
InitConcurrent ==
    /\ catalog = CatalogFull
    /\ data = UnifiedFoodDataAccess
    /\ calc = <<>>
    /\ prefer_variety \in BOOLEAN
    /\ SolveIdle
    /\ \E t \in DailyTargets, n \in 1..MaxDays, diet \in Diets :
           tasks = <<Task(UserConstraints(t, Distribution(R(25), R(35), R(10), R(30)),
                                          "omnivore", <<{}, {}>>, "balanced", n,
                                          <<FALSE, None>>)),
                     Task(UserConstraints(<<R(2000), R(75), R(250), R(65), R(10)>>,
                                          Distribution(R(25), R(35), R(10), R(30)),
                                          diet, <<{"gluten"}, {}>>, "recipes", MaxDays,
                                          <<TRUE, <<0>>>>))>>

\* one invocation with variety enabled on a solver whose composer was built
\* with the stub
InitVariety ==
    /\ catalog = CatalogFull
    /\ data = [provider |-> "stub", ciqual |-> None, gustar |-> None, off |-> None]
    /\ calc = <<>>
    /\ prefer_variety = TRUE
    /\ SolveIdle
    /\ \E t \in DailyTargets,
          dist \in {Distribution(R(25), R(35), R(10), R(30)),
                    Distribution(R(25), R(35), R(10), <<301, 10>>)},
          cheat \in {<<FALSE, None>>, <<TRUE, <<0>>>>, <<TRUE, <<3>>>>} :
           tasks = <<Task(UserConstraints(t, dist, "omnivore", <<{}, {}>>, "balanced",
                                          VarietyDays, cheat))>>

\* invocation i is resumed: its compose_meal call completes and solve runs
\* on to its next call into the provider, or returns
Resume(i) ==
    /\ ~tasks[i].output.returned
    /\ tasks' = [tasks EXCEPT ![i] =
                     TaskResume(tasks[i],
                                TaskCall(data, catalog, prefer_variety, tasks[i],
                                         TaskUsedFoods(tasks, i)),
                                prefer_variety)]
    /\ data' = DataAfterCall(data, catalog, MealTypes[tasks[i].slot],
                             tasks[i].constraints.meal_source_preference)
    /\ UNCHANGED <<catalog, calc, prefer_variety, solveVars>>

NextTasks == \E i \in DOMAIN tasks : Resume(i)

SpecConcurrent == InitConcurrent /\ [][NextTasks]_vars

SpecVariety == InitVariety /\ [][NextTasks]_vars

-----------------------------------------------------------------------------
(* Functions of the solver, the validator and the data access on their own *)

\* calc holds one call: the function named by op, its arguments, and its
\* result once it has returned (<<result>>; None before)
InitFunctions ==
    /\ catalog = [ciqual |-> Append(CatalogFull.ciqual,
                                    CiqualItem("ciqual_avoine", {"avoine"}, {"cereale"},
                                               "carb", 400)),
                  gustar |-> Append(CatalogFull.gustar,
                                    GustarItem("gustar_7", {"muesli"}, {"avoine"},
                                               "breakfast", "carb", 85, 300))]
    /\ data = UnifiedFoodDataAccess
    /\ tasks = <<>>
    /\ prefer_variety = TRUE
    /\ SolveIdle
    /\ \/ \E cal \in {R(2000), R(100)}, prot \in {None, Zero, R(75)},
              carb \in {None, Zero, R(250)}, fat \in {None, R(65)},
              dist \in {d \in Distributions : MealDistributionValid(d)} :
              calc = [op |-> "_compute_daily_targets", result |-> None, args |->
                          UserConstraints(<<cal, prot, carb, fat, R(10)>>, dist, "omnivore",
                                          <<{}, {}>>, "balanced", 1, <<FALSE, None>>)]
       \/ \E cal \in {0, 50, 300},
              target \in {Zero, R(1), R(35), <<2626, 100>>, R(2000)},
              portion \in {<<None, None>>, <<<<R(10)>>, None>>, <<<<R(10)>>, <<R(500)>>>>,
                           <<<<R(150)>>, <<R(450)>>>>,
                           <<<<<<1004, 100>>>>, <<R(500)>>>>,
                           <<<<R(10)>>, <<<<1004, 100>>>>>>} :
              calc = [op |-> "calculate_grams_for_calories", result |-> None, args |->
                          [food |-> [macros_per_100g |->
                                        IF cal = 0 THEN Macros(Zero, Zero, Zero, Zero, None)
                                        ELSE Profile(cal)],
                           target_calories |-> target,
                           min_grams |-> IF portion[1] = None THEN None ELSE portion[1][1],
                           max_grams |-> IF portion[2] = None THEN None ELSE portion[2][1]]]
       \/ \E actual \in {1500, 1799, 1800, 1840, 1900, 2000, 2080, 2081, 2100, 2101,
                          2160, 2161, 2200, 2201},
              tolerance \in {Zero, R(5), R(10)} :
              calc = [op |-> "_check_calorie_tolerance", result |-> None, args |->
                          [day_plan |-> DailyPlan(0, <<>>,
                                           Macros(R(actual), Zero, Zero, Zero, None), FALSE),
                           constraints |->
                               UserConstraints(<<R(2000), None, None, None, tolerance>>,
                                               Distribution(R(25), R(35), R(10), R(30)),
                                               "omnivore", <<{}, {}>>, "balanced", 1,
                                               <<FALSE, None>>)]]
       \/ \E reported \in {300, 303, 310}, food_id \in {"ciqual_pain", "manual_1"},
              target \in {300, 330, 340, 400},
              diet \in Diets, ex \in {<<{}, {}>>, <<{"gluten"}, {}>>} :
              calc = [op |-> "validate", result |-> None, args |->
                          [constraints |->
                               UserConstraints(<<R(target), None, None, None, R(10)>>,
                                               Distribution(R(25), R(35), R(10), R(30)),
                                               diet, ex, "balanced", 1, <<FALSE, None>>),
                           days |->
                               <<DailyPlan(0,
                                     <<PlannedMeal(0,
                                          ComposedMeal("lunch",
                                              <<MealComponent(food_id, "ciqual", {"pain"}, R(100),
                                                              MacrosScale(Profile(350), R(1)),
                                                              "carb")>>,
                                              Macros(R(target), Zero, Zero, Zero, None)))>>,
                                     MacrosScale(Profile(reported), R(1)), FALSE)>>]]
       \/ \E preference \in {"fresh", "recipes", "quick", "balanced", "unknown"},
              meal_type \in SeqToSet(MealTypes) \cup {"none"} :
              calc = [op |-> "determine_source_strategy", result |-> None, args |->
                          [preference |-> preference, meal_type |-> meal_type]]
       \/ \E preference \in {"fresh", "recipes", "quick", "balanced"},
              meal_type \in SeqToSet(MealTypes), diet \in Diets,
              exclude_allergens \in {{}, {"gluten"}} :
              calc = [op |-> "get_foods_for_meal", result |-> None, args |->
                          [meal_type |-> meal_type, diet |-> diet,
                           exclude_allergens |-> exclude_allergens,
                           source_preference |-> preference]]

\* MealPlanSolver._compute_daily_targets(constraints)
ComputeDailyTargets ==
    /\ calc.op = "_compute_daily_targets"
    /\ calc.result = None
    /\ calc' = [calc EXCEPT !.result = <<_compute_daily_targets(calc.args)>>]
    /\ UNCHANGED <<catalog, data, tasks, prefer_variety, solveVars>>

\* QuantityCalculator.calculate_grams_for_calories(food, target_calories,
\* min_grams, max_grams)
CalculateGrams ==
    /\ calc.op = "calculate_grams_for_calories"
    /\ calc.result = None
    /\ calc' = [calc EXCEPT !.result =
                    <<calculate_grams_for_calories(calc.args.food, calc.args.target_calories,
                                                   calc.args.min_grams, calc.args.max_grams)>>]
    /\ UNCHANGED <<catalog, data, tasks, prefer_variety, solveVars>>

\* MealPlanValidator._check_calorie_tolerance(result, day_plan, constraints):
\* what it adds to result, and the deviation it returns
CheckCalorieTolerance ==
    /\ calc.op = "_check_calorie_tolerance"
    /\ calc.result = None
    /\ calc' = [calc EXCEPT !.result =
                    <<[added |-> _check_calorie_tolerance(calc.args.day_plan,
                                                          calc.args.constraints),
                       deviation_pct |-> deviation_pct(calc.args.day_plan,
                                                       calc.args.constraints)]>>]
    /\ UNCHANGED <<catalog, data, tasks, prefer_variety, solveVars>>

\* determine_source_strategy(preference, meal_type); meal_type "none" is the
\* default None
DetermineSourceStrategy ==
    /\ calc.op = "determine_source_strategy"
    /\ calc.result = None
    /\ calc' = [calc EXCEPT !.result =
                    <<determine_source_strategy(calc.args.preference, calc.args.meal_type)>>]
    /\ UNCHANGED <<catalog, data, tasks, prefer_variety, solveVars>>

\* UnifiedFoodDataAccess.get_foods_for_meal on a new data access: the
\* sources it queries load their data
GetFoodsForMeal ==
    /\ calc.op = "get_foods_for_meal"
    /\ calc.result = None
    /\ calc' = [calc EXCEPT !.result =
                    <<get_foods_for_meal(DataCatalog(data, catalog), calc.args.meal_type,
                                         calc.args.diet, calc.args.exclude_allergens,
                                         calc.args.source_preference)>>]
    /\ data' = DataAfterCall(data, catalog, calc.args.meal_type,
                             calc.args.source_preference)
    /\ UNCHANGED <<catalog, tasks, prefer_variety, solveVars>>

\* MealPlanValidator.validate(plan) on a plan built by the caller
ValidatePlan ==
    /\ calc.op = "validate"
    /\ calc.result = None
    /\ calc' = [calc EXCEPT !.result = <<validate(catalog, calc.args)>>]
    /\ UNCHANGED <<catalog, data, tasks, prefer_variety, solveVars>>

NextFunctions ==
    \/ ValidatePlan
    \/ ComputeDailyTargets
    \/ CalculateGrams
    \/ CheckCalorieTolerance
    \/ DetermineSourceStrategy
    \/ GetFoodsForMeal

SpecFunctions == InitFunctions /\ [][NextFunctions]_vars

-----------------------------------------------------------------------------
(* Properties                                                              *)

\* C1: every meal returned by compose_meal that has at least one component
\* has actual calories (the sum of its components' computed calories) within
\* 0.1 kcal of its target calories, whatever the densities, the portion
\* bounds and the number of skipped roles.
C1_RescaleExact ==
    LET close(meal) ==
            Len(meal.components) >= 1 =>
                RLe(RAbs(RSub(actual_macros(meal).calories, meal.target_macros.calories)),
                    <<1, 10>>)
    IN  /\ (last_call.status = "ok" => close(last_call.meal))
        /\ \A j \in 1..Len(meals) : close(meals[j].meal)
        /\ \A i \in 1..Len(days) :
               \A j \in 1..Len(days[i].meals) : close(days[i].meals[j].meal)

\* a returned meal in which a required role was skipped and a portion was
\* clamped to its minimum before the rescale
C1_Witness ==
    /\ last_call.status = "ok"
    /\ Len(last_call.meal.components) >= 1
    /\ Len(last_call.meal.components)
           < Len(_get_roles_for_meal_type(last_call.meal.meal_type))
    /\ \E k \in 1..Len(last_call.meal.components) :
           RLt(last_call.meal.components[k].grams, R(DefaultMinPortion))

\* C2: solve always returns an output; a failure raised anywhere ends in
\* success = false with no plan, a reason and the fixed non-empty suggestion
\* list; success = true carries a plan of exactly num_days days and no reason.
C2_AllOrNothing ==
    /\ (pc \in {"done", "validated"} => output.returned)
    /\ (last_call.status = "raised" =>
            pc = "done" /\ output.returned /\ ~output.success)
    /\ (output.returned /\ ~output.success =>
            /\ Len(output.plan) = 0
            /\ Len(output.infeasibility_reason) = 1
            /\ Len(output.relaxation_suggestions) = 2
            /\ output.relaxation_suggestions = relaxation_suggestions)
    /\ (output.returned /\ output.success =>
            /\ Len(output.plan) = 1
            /\ Len(output.plan[1].days) = constraints.num_days
            /\ Len(output.infeasibility_reason) = 0)

\* a failure on a later day: the days already built are not returned
C2_Witness ==
    /\ output.returned
    /\ ~output.success
    /\ Len(days) >= 1
    /\ Len(output.plan) = 0

\* C3: without a treat day and with at least one positive-calorie candidate
\* for every required role of every slot, solve returns success = true with
\* num_days days of four meals (breakfast, lunch, snack, dinner) and every
\* day's calories within the tolerance of the daily target.
C3_FeasibleSolveSucceeds ==
    LET c == constraints
        covered ==
            \A s \in 1..4 :
                LET fb == get_foods_for_meal(catalog, MealTypes[s], c.diet_type,
                              c.allergies \cup c.intolerances, c.meal_source_preference)
                    roles == _get_roles_for_meal_type(MealTypes[s])
                IN  \A k \in 1..Len(roles) :
                        /\ roles[k] \in DOMAIN fb
                        /\ \E n \in 1..Len(fb[roles[k]]) :
                               RGt(fb[roles[k]][n].macros_per_100g.calories, Zero)
        within(day) ==
            RLe(RMul(RAbs(RSub(day.daily_totals.calories, c.daily_target.calories)), R(100)),
                RMul(c.daily_target.calories, c.daily_target.calorie_tolerance_pct))
    IN  (pc \in {"done", "validated"} /\ ~c.include_cheat_meal /\ covered
         /\ last_call.error # "OSError")
        => /\ output.success
           /\ Len(output.plan[1].days) = c.num_days
           /\ \A i \in 1..c.num_days :
                  /\ Len(output.plan[1].days[i].meals) = 4
                  /\ \A j \in 1..4 :
                         output.plan[1].days[i].meals[j].meal.meal_type = MealTypes[j]
                  /\ within(output.plan[1].days[i])

\* C4: no food selected by compose_meal, and no component of a planned meal,
\* has an allergen of the excluded set passed to compose_meal (for solve, the
\* union of allergies and intolerances).
C4_NoExcludedAllergen ==
    LET allergens_of(food_id) == get_by_id(catalog, food_id)[1].allergens
        safe(meal) ==
            \A k \in 1..Len(meal.components) :
                allergens_of(meal.components[k].food_id)
                    \cap (constraints.allergies \cup constraints.intolerances) = {}
    IN  /\ \A k \in 1..Len(last_call.trace) :
               allergens_of(last_call.trace[k].chosen) \cap last_call.exclude_allergens = {}
        /\ \A j \in 1..Len(meals) : safe(meals[j].meal)
        /\ \A i \in 1..Len(days) : \A j \in 1..Len(days[i].meals) : safe(days[i].meals[j].meal)

\* gluten is excluded, the catalogue holds a gluten food of the carb role and
\* a carb component was selected
C4_Witness ==
    /\ last_call.status = "ok"
    /\ "gluten" \in last_call.exclude_allergens
    /\ \E n \in 1..Len(catalog.ciqual) :
           /\ catalog.ciqual[n].role = "carb"
           /\ "gluten" \in CiqualExtractAllergens(catalog.ciqual[n])
    /\ \E k \in 1..Len(last_call.meal.components) :
           last_call.meal.components[k].role = "carb"

\* C5: with variety enabled the food chosen for a role is the first candidate
\* not yet in the used-foods set; an already used food is chosen only when
\* every candidate of the role is used, it is then the first candidate, and
\* the role is still filled.  The used-foods set holds every food of the days
\* planned before.
C5_VarietySoft ==
    prefer_variety =>
        \A k \in 1..Len(last_call.trace) :
            LET e == last_call.trace[k]
                unused == {n \in 1..Len(e.candidates) : e.candidates[n] \notin e.used_before}
            IN  /\ (unused # {} =>
                        \E n \in unused :
                            /\ e.chosen = e.candidates[n]
                            /\ \A m \in unused : n <= m)
                /\ (e.chosen \in e.used_before =>
                        /\ unused = {}
                        /\ e.chosen = e.candidates[1]
                        /\ e.built)
                /\ \A i \in 1..Len(days) :
                       days[i].day < last_call.day =>
                           \A j \in 1..Len(days[i].meals) :
                               \A n \in 1..Len(days[i].meals[j].meal.components) :
                                   days[i].meals[j].meal.components[n].food_id
                                       \in e.used_before

\* every candidate of a role was already used and the first one is reused
C5_Witness ==
    /\ prefer_variety
    /\ last_call.status = "ok"
    /\ \E k \in 1..Len(last_call.trace) :
           /\ last_call.trace[k].chosen \in last_call.trace[k].used_before
           /\ Len(last_call.trace[k].candidates) >= 2

\* C6 as stated: for a plan whose every day's calories lie within the
\* tolerance of the daily target, validate returns is_valid = true and no
\* calorie-tolerance error.
C6_InToleranceIsValid ==
    LET c == constraints
        within(day) ==
            RLe(RMul(RAbs(RSub(day.daily_totals.calories, c.daily_target.calories)), R(100)),
                RMul(c.daily_target.calories, c.daily_target.calorie_tolerance_pct))
    IN  (validation.done /\ \A i \in 1..Len(days) : within(days[i]))
        => /\ validation.is_valid
           /\ \A k \in 1..Len(validation.errors) :
                  validation.errors[k].code # "CALORIE_OUT_OF_TOLERANCE"

\* C6 amended: for such a plan validate reports no calorie-tolerance error,
\* and is_valid = true exactly when no component name holds a keyword of a
\* forbidden allergen or of a food the diet forbids.
C6_InToleranceNoToleranceError ==
    LET c == constraints
        within(day) ==
            RLe(RMul(RAbs(RSub(day.daily_totals.calories, c.daily_target.calories)), R(100)),
                RMul(c.daily_target.calories, c.daily_target.calorie_tolerance_pct))
        forbidden_kw ==
            UNION {allergen_keywords(a) : a \in c.allergies \cup c.intolerances}
            \cup (IF c.diet_type = "vegetarian" THEN meat_keywords \cup fish_keywords
                  ELSE IF c.diet_type = "vegan" THEN animal_keywords
                  ELSE IF c.diet_type = "pescatarian" THEN meat_keywords
                  ELSE {})
        clean ==
            \A i \in 1..Len(days) : \A j \in 1..Len(days[i].meals) :
                \A k \in 1..Len(days[i].meals[j].meal.components) :
                    days[i].meals[j].meal.components[k].name \cap forbidden_kw = {}
    IN  (validation.done /\ \A i \in 1..Len(days) : within(days[i]))
        => /\ (validation.is_valid <=> clean)
           /\ \A k \in 1..Len(validation.errors) :
                  validation.errors[k].code # "CALORIE_OUT_OF_TOLERANCE"

\* a validated plan whose days deviate from the target, within the tolerance
C6_Witness ==
    /\ validation.done
    /\ validation.is_valid
    /\ Len(days) >= 1
    /\ \A i \in 1..Len(days) :
           /\ days[i].daily_totals.calories # constraints.daily_target.calories
           /\ RLe(RMul(RAbs(RSub(days[i].daily_totals.calories,
                                 constraints.daily_target.calories)), R(100)),
                  RMul(constraints.daily_target.calories,
                       constraints.daily_target.calorie_tolerance_pct))

\* C7: when the provider returns no candidate for any role of any slot, solve
\* yields success = false with non-empty suggestions, or success = true with
\* a plan marked invalid and non-empty validation errors; never a valid plan.
C7_EmptyProviderNeverValid ==
    LET c == constraints
        empty ==
            \A s \in 1..4 :
                DOMAIN get_foods_for_meal(catalog, MealTypes[s], c.diet_type,
                           c.allergies \cup c.intolerances, c.meal_source_preference) = {}
    IN  (pc \in {"done", "validated"} /\ empty)
        => \/ ~output.success /\ Len(output.relaxation_suggestions) > 0
           \/ /\ output.success
              /\ ~output.plan[1].is_valid
              /\ Len(output.plan[1].validation_errors) > 0

\* solve has returned for a provider with no vegan candidate at all
C7_Witness ==
    /\ pc = "done"
    /\ output.returned
    /\ constraints.diet_type = "vegan"
    /\ constraints.daily_target.calories = R(100)
    /\ last_call.status = "raised"
    /\ last_call.trace = <<>>
    /\ last_call.error = "ValidationError: components"

\* C8: when no component can be built for any required role, compose_meal
\* does not raise: it returns a meal with an empty component list and 0
\* actual calories.
C8_EmptyMealReturned ==
    (/\ last_call.status # "none"
     /\ last_call.error # "OSError"
     /\ \A k \in 1..Len(last_call.trace) : ~last_call.trace[k].built)
    => /\ last_call.status = "ok"
       /\ last_call.meal.components = <<>>
       /\ actual_macros(last_call.meal).calories = Zero

\* C9: on the treat day (flag enabled, index designated) every slot's calorie
\* target is 1.3 times the ordinary one and its protein, carb and fat targets
\* are the ordinary ones; every other day has the ordinary targets; at most
\* one day is marked as the treat day.
C9_TreatDayTargets ==
    LET c == constraints
        pct(j) == Pcts(c.meal_distribution)[j]
        ordinary(x, j) == RDiv(RMul(x, pct(j)), R(100))
        soft(x, j) == IF x = None \/ x = Zero THEN Zero ELSE ordinary(x, j)
        treat(d) == c.include_cheat_meal /\ c.cheat_meal_day = <<d>>
        right(d, ms) ==
            \A j \in 1..Len(ms) :
                LET t == ms[j].meal.target_macros
                IN  /\ t.calories = IF treat(d)
                                    THEN RMul(ordinary(c.daily_target.calories, j), <<13, 10>>)
                                    ELSE ordinary(c.daily_target.calories, j)
                    /\ t.proteins = soft(c.daily_target.proteins, j)
                    /\ t.carbs = soft(c.daily_target.carbs, j)
                    /\ t.fats = soft(c.daily_target.fats, j)
    IN  /\ (pc = "slot_loop" => right(day_index, meals))
        /\ \A i \in 1..Len(days) :
               /\ right(i - 1, days[i].meals)
               /\ days[i].is_cheat_day = treat(i - 1)
        /\ Cardinality({i \in 1..Len(days) : days[i].is_cheat_day}) <= 1

\* a boosted day followed by a completed ordinary day
C9_Witness ==
    /\ Len(days) >= 2
    /\ days[1].is_cheat_day
    /\ ~days[2].is_cheat_day
    /\ days[1].meals[1].meal.target_macros.calories = R(650)
    /\ days[2].meals[1].meal.target_macros.calories = R(500)

\* C10: a constructed MealDistribution sums to 100 within 0.1; four
\* percentages whose sum differs from 100 by more than 0.1 (90, 110) are
\* rejected and no object is produced.
C10_DistributionSum ==
    LET d == constraints.meal_distribution
        total == RAdd(RAdd(d.breakfast_pct, d.lunch_pct), RAdd(d.snack_pct, d.dinner_pct))
        off == RGt(RAbs(RSub(total, R(100))), <<1, 10>>)
    IN  /\ (pc \notin {"new", "rejected"} => ~off)
        /\ (off /\ pc # "new" => pc = "rejected")
        /\ (total \in {R(90), R(110)} => pc \in {"new", "rejected"})

\* the construction of a distribution summing to 90 has failed
C10_Witness ==
    /\ pc = "rejected"
    /\ RAdd(RAdd(constraints.meal_distribution.breakfast_pct,
                 constraints.meal_distribution.lunch_pct),
            RAdd(constraints.meal_distribution.snack_pct,
                 constraints.meal_distribution.dinner_pct)) = R(90)

\* C14: solve reports iterations on both outcomes, one per day whose
\* processing was started: num_days on success, 1 + the index of the day in
\* which the failure was raised on failure; always between 0 and num_days.
C14_Iterations ==
    output.returned =>
        /\ output.iterations >= 0
        /\ output.iterations <= constraints.num_days
        /\ (output.success => output.iterations = constraints.num_days)
        /\ (~output.success =>
                /\ output.iterations = Len(days) + 1
                /\ output.iterations = last_call.day + 1)

\* a failure raised during the second day, after a completed first day
C14_Witness ==
    /\ output.returned
    /\ ~output.success
    /\ Len(days) = 1
    /\ last_call.day = 1
    /\ output.iterations = 2

C16_RoleIffCandidates ==
    last_call.status = "ok" =>
        LET fb == get_foods_for_meal(catalog, last_call.meal.meal_type,
                      constraints.diet_type, last_call.exclude_allergens,
                      constraints.meal_source_preference)
            roles == _get_roles_for_meal_type(last_call.meal.meal_type)
            count(role) == Cardinality({k \in 1..Len(last_call.meal.components) :
                                           last_call.meal.components[k].role = role})
        IN  \A r \in 1..Len(roles) :
                count(roles[r]) = IF roles[r] \in DOMAIN fb THEN 1 ELSE 0

\* C16 amended: whenever the role loop of compose_meal has run, a required
\* role has exactly one component if the provider returned at least one
\* candidate for it and the food selected for it has positive calories per
\* 100 g; a role without candidates, or whose selected food has no calories,
\* has no component and no other food is tried for it.
C16_RoleIffPositiveCandidate ==
    (last_call.status # "none" /\ last_call.error # "OSError") =>
        LET fb == get_foods_for_meal(catalog, last_call.meal.meal_type,
                      constraints.diet_type, last_call.exclude_allergens,
                      constraints.meal_source_preference)
            roles == _get_roles_for_meal_type(last_call.meal.meal_type)
            count(role) == Cardinality({k \in 1..Len(last_call.meal.components) :
                                           last_call.meal.components[k].role = role})
            entries(role) == {k \in 1..Len(last_call.trace) : last_call.trace[k].role = role}
            positive(role) ==
                \E k \in entries(role) : \E n \in 1..Len(fb[role]) :
                    /\ fb[role][n].id = last_call.trace[k].chosen
                    /\ RGt(fb[role][n].macros_per_100g.calories, Zero)
        IN  \A r \in 1..Len(roles) :
                /\ Cardinality(entries(roles[r])) = IF roles[r] \in DOMAIN fb THEN 1 ELSE 0
                /\ count(roles[r]) =
                       IF roles[r] \in DOMAIN fb /\ positive(roles[r]) THEN 1 ELSE 0

\* a returned meal in which a role with candidates has no component: the food
\* selected for it has no calories
C16_Witness ==
    /\ last_call.status = "ok"
    /\ \E k \in 1..Len(last_call.trace) :
           /\ ~last_call.trace[k].built
           /\ Len(last_call.trace[k].candidates) >= 2
           /\ \A n \in 1..Len(last_call.meal.components) :
                  last_call.meal.components[n].role # last_call.trace[k].role

\* C17: every meal returned by compose_meal or held by a plan has at least
\* one component, every component has grams > 0, and the components' roles
\* are pairwise distinct members of the slot's required-role list (breakfast:
\* carb, dairy, fruit; snack: fruit, dairy; lunch and dinner: protein, carb,
\* vegetable), in that list's order.
C17_MealShape ==
    LET required(meal_type) ==
            CASE meal_type = "breakfast" -> <<"carb", "dairy", "fruit">>
              [] meal_type = "snack" -> <<"fruit", "dairy">>
              [] meal_type \in {"lunch", "dinner"} -> <<"protein", "carb", "vegetable">>
        pos(meal, k) ==
            CHOOSE n \in 1..Len(required(meal.meal_type)) :
                required(meal.meal_type)[n] = meal.components[k].role
        shaped(meal) ==
            /\ Len(meal.components) >= 1
            /\ \A k \in 1..Len(meal.components) :
                   /\ RGt(meal.components[k].grams, Zero)
                   /\ \E n \in 1..Len(required(meal.meal_type)) :
                          required(meal.meal_type)[n] = meal.components[k].role
            /\ \A k, l \in 1..Len(meal.components) :
                   k < l => pos(meal, k) < pos(meal, l)
    IN  /\ (last_call.status = "ok" => shaped(last_call.meal))
        /\ \A j \in 1..Len(meals) : shaped(meals[j].meal)
        /\ \A i \in 1..Len(days) :
               \A j \in 1..Len(days[i].meals) : shaped(days[i].meals[j].meal)
        /\ (output.returned /\ output.success =>
                \A i \in 1..Len(output.plan[1].days) :
                    \A j \in 1..Len(output.plan[1].days[i].meals) :
                        shaped(output.plan[1].days[i].meals[j].meal))

\* a returned plan whose dinner has the three components protein, carb,
\* vegetable and whose breakfast has fewer components than required roles
C17_Witness ==
    /\ output.returned
    /\ output.success
    /\ Len(output.plan[1].days[1].meals[4].meal.components) = 3
    /\ Len(output.plan[1].days[1].meals[1].meal.components) < 3

\* C18 as stated: in every returned meal each component's final grams lie
\* within the portion bounds of its food.
C18_FinalGramsInBounds ==
    LET inside(meal) ==
            \A k \in 1..Len(meal.components) :
                LET food == get_by_id(catalog, meal.components[k].food_id)[1]
                IN  /\ RLe(food.min_portion_g, meal.components[k].grams)
                    /\ RLe(meal.components[k].grams, food.max_portion_g)
    IN  /\ (last_call.status = "ok" => inside(last_call.meal))
        /\ \A j \in 1..Len(meals) : inside(meals[j].meal)

\* C18 amended: in every returned meal the grams computed for each component
\* before the rescale pass lie within the portion bounds of its food; the
\* final grams are those grams times the rescale factor (target calories over
\* the calories of the components before the rescale), rounded to 0.1 g.
C18_PreRescaleGramsInBounds ==
    last_call.status = "ok" =>
        LET built == SelectSeq(last_call.trace, LAMBDA e : e.built)
            comps == last_call.meal.components
            food(k) == get_by_id(catalog, built[k].chosen)[1]
            before(k) == RDiv(RMul(food(k).macros_per_100g.calories, built[k].grams), R(100))
            total == IF Len(built) = 1 THEN before(1)
                     ELSE IF Len(built) = 2 THEN RAdd(before(1), before(2))
                     ELSE RAdd(RAdd(before(1), before(2)), before(3))
        IN  /\ Len(built) = Len(comps)
            /\ \A k \in 1..Len(built) :
                   /\ built[k].chosen = comps[k].food_id
                   /\ RLe(food(k).min_portion_g, built[k].grams)
                   /\ RLe(built[k].grams, food(k).max_portion_g)
                   /\ comps[k].grams =
                          Round1(RMul(built[k].grams,
                                      RDiv(last_call.meal.target_macros.calories, total)))

\* a returned meal with a component whose grams were clamped up to the
\* minimum portion and whose final grams are below the minimum portion
C18_Witness ==
    /\ last_call.status = "ok"
    /\ \E k \in 1..Len(last_call.trace) :
           LET e == last_call.trace[k]
           IN  /\ e.built
               /\ e.grams = get_by_id(catalog, e.chosen)[1].min_portion_g
               /\ \E n \in 1..Len(last_call.meal.components) :
                      /\ last_call.meal.components[n].food_id = e.chosen
                      /\ RLt(last_call.meal.components[n].grams, e.grams)

C20_SolverValidatorAgree ==
    validation.done =>
        LET plan == output.plan[1]
            flagged(d) == \E k \in 1..Len(plan.validation_errors) :
                              plan.validation_errors[k] = d + 1
            out_of_tolerance(d) ==
                \E k \in 1..Len(validation.errors) :
                    /\ validation.errors[k].code = "CALORIE_OUT_OF_TOLERANCE"
                    /\ validation.errors[k].day = d
        IN  /\ \A i \in 1..Len(plan.days) :
                   flagged(plan.days[i].day) <=> out_of_tolerance(plan.days[i].day)
            /\ (plan.is_valid <=>
                    \A i \in 1..Len(plan.days) : ~out_of_tolerance(plan.days[i].day))

\* a validated two-day plan whose treat day is flagged by both and whose
\* other day is flagged by neither
C20_Witness ==
    /\ validation.done
    /\ Len(output.plan[1].days) = 2
    /\ output.plan[1].validation_errors = <<1>>
    /\ Len(SelectSeq(validation.errors,
                     LAMBDA e : e.code = "CALORIE_OUT_OF_TOLERANCE")) = 1
    /\ \E k \in 1..Len(validation.errors) :
           validation.errors[k].code = "CALORIE_OUT_OF_TOLERANCE" /\ validation.errors[k].day = 0

\* C12: for all Macros values a, b, c (fiber absent, present with value 0, or
\* positive): a + b = b + a, (a + b) + c = a + (b + c), a.scale(1) = a, and
\* a.scale(0) has every required field 0 and fiber 0 if it was present in a,
\* absent if it was absent in a.
C12_MacrosAlgebra ==
    /\ (calc.sums # None =>
            /\ calc.sums[1].ab = calc.sums[1].ba
            /\ calc.sums[1].ab_c = calc.sums[1].a_bc)
    /\ (calc.scaled # None =>
            /\ calc.scaled[1].one = calc.a
            /\ calc.scaled[1].zero.calories = Zero
            /\ calc.scaled[1].zero.proteins = Zero
            /\ calc.scaled[1].zero.carbs = Zero
            /\ calc.scaled[1].zero.fats = Zero
            /\ calc.scaled[1].zero.fiber = IF calc.a.fiber # None THEN Zero ELSE None)

\* C11: two solve invocations interleaved at their calls into the provider
\* on one solver instance never see each other's used-foods set or days: at
\* every point each invocation is on the course of its run alone, and it
\* returns the output (plan: food ids and grams per day, slot and role) that
\* it returns when run alone on a new solver.
C11_ConcurrentSolvesIsolated ==
    \A i \in DOMAIN tasks :
        LET alone == Solo(UnifiedFoodDataAccess, catalog, prefer_variety,
                          Task(tasks[i].constraints))
        IN  /\ Solo(data, catalog, prefer_variety, tasks[i]).output = alone.output
            /\ (tasks[i].output.returned => tasks[i].output = alone.output)

\* both invocations are in flight with variety enabled, at different slots,
\* have selected a common food, and the data of both sources is loaded
C11_Witness ==
    /\ Len(tasks) = 2
    /\ prefer_variety
    /\ ~tasks[1].output.returned /\ ~tasks[2].output.returned
    /\ tasks[1].slot = 3 /\ tasks[2].slot = 2
    /\ tasks[1].used_foods \cap tasks[2].used_foods # {}
    /\ tasks[1].used_foods # tasks[2].used_foods
    /\ data.ciqual # None /\ data.gustar # None

\* C13: a plan of VarietyDays days solved with variety enabled against a
\* provider offering StubFoodsPerRole distinct foods per role has a food-id
\* repetition rate (1 - distinct food ids / components) below 50 %.
C13_RepetitionRate ==
    \A i \in DOMAIN tasks :
        (/\ data.provider = "stub"
         /\ prefer_variety
         /\ tasks[i].output.returned
         /\ tasks[i].output.success
         /\ tasks[i].constraints.num_days = VarietyDays) =>
            LET cs == Concat(MapSeq(tasks[i].output.plan[1].days, DayComponents))
                ids == {cs[k].food_id : k \in 1..Len(cs)}
            IN  /\ Len(cs) > 0
                /\ 2 * Cardinality(ids) > Len(cs)

\* a returned plan of VarietyDays days of eleven components each in which a
\* food is repeated
C13_Witness ==
    /\ data.provider = "stub"
    /\ prefer_variety
    /\ Len(tasks) = 1
    /\ tasks[1].output.returned
    /\ tasks[1].output.success
    /\ LET cs == Concat(MapSeq(tasks[1].output.plan[1].days, DayComponents))
       IN  /\ Len(cs) = 11 * VarietyDays
           /\ Cardinality({cs[k].food_id : k \in 1..Len(cs)}) < Len(cs)

\* C21: within one solve with variety enabled, components are selected in
\* the order day 0..num_days-1, then breakfast, lunch, snack, dinner, then the
\* slot's roles in list order; used_foods starts empty, only grows, and when
\* a food is selected it is exactly the set of food ids of the components
\* built at all earlier positions of the invocation (a selected food that
\* gave no component is not in it).
C21_SequentialSelection ==
    [][prefer_variety =>
        LET ids(components) == {components[k].food_id : k \in 1..Len(components)}
            planned(ds, ms) ==
                ids(Concat(MapSeq(ds, DayComponents)))
                \cup ids(Concat(MapSeq(ms, LAMBDA pm : pm.meal.components)))
            roles == _get_roles_for_meal_type(MealTypes[slot])
            trace == last_call'.trace
            position(role) == CHOOSE n \in 1..Len(roles) : roles[n] = role
            composed == /\ pc = "slot_loop"
                        /\ slot <= 4
                        /\ last_call'.error # "OSError"
        IN  /\ pc = "ready" => used_foods' = {}
            /\ pc # "ready" => used_foods \subseteq used_foods'
            /\ pc' \in {"day_loop", "slot_loop"} => used_foods' = planned(days', meals')
            /\ day_index' # day_index =>
                   /\ pc = "slot_loop"
                   /\ slot = 5
                   /\ day_index' = day_index + 1
            /\ slot' # slot =>
                   \/ pc = "day_loop" /\ slot' = 1 /\ day_index < constraints.num_days
                   \/ composed /\ slot' = slot + 1
            /\ meals' # meals =>
                   \/ pc = "day_loop" /\ meals' = <<>>
                   \/ /\ composed
                      /\ Len(meals) = slot - 1
                      /\ meals' = Append(meals, PlannedMeal(day_index, last_call'.meal))
                      /\ last_call'.meal.meal_type = MealTypes[slot]
            /\ composed =>
                   /\ last_call'.day = day_index
                   /\ Len(days) = day_index
                   /\ \A k \in 1..Len(trace) :
                          /\ trace[k].role \in SeqToSet(roles)
                          /\ \A j \in 1..(k - 1) :
                                 position(trace[j].role) < position(trace[k].role)
                          /\ trace[k].used_before =
                                 planned(days, meals)
                                 \cup {trace[j].chosen : j \in {i \in 1..(k - 1) : trace[i].built}}
       ]_vars

\* on the second day the food selected for the third role of a slot is one
\* that was selected on the first day and gave no component: the set holds
\* the foods of the earlier components and not that food
C21_Witness ==
    /\ prefer_variety
    /\ pc = "slot_loop"
    /\ day_index = 1
    /\ last_call.status = "ok"
    /\ last_call.day = 1
    /\ Len(last_call.trace) = 3
    /\ last_call.trace[3].chosen = "ciqual_sel"
    /\ ~last_call.trace[3].built
    /\ "ciqual_sel" \notin last_call.trace[3].used_before
    /\ "ciqual_brocoli" \in last_call.trace[3].used_before
    /\ last_call.trace[1].chosen \in last_call.trace[3].used_before
    /\ last_call.trace[2].chosen \in last_call.trace[3].used_before
    /\ \E m \in 1..Len(days[1].meals) :
           /\ Len(days[1].meals[m].meal.components) = 2
           /\ days[1].meals[m].meal.meal_type = "dinner"

\* C22: with the variety preference disabled no used-foods state carries
\* over from one meal to the next: the set of solve stays empty and every
\* compose_meal call starts from an empty set of its own, so every day's meal
\* of a slot has the food ids of that slot on day 0; within one meal a food
\* chosen for an earlier role is avoided when another candidate exists.
C22_NoCarryOver ==
    ~prefer_variety =>
        LET ids(pm) == MapSeq(pm.meal.components, LAMBDA c : c.food_id)
            trace == last_call.trace
        IN  /\ used_foods = {}
            /\ \A k \in 1..Len(trace) :
                   /\ trace[k].used_before =
                          {trace[j].chosen : j \in {i \in 1..(k - 1) : trace[i].built}}
                   /\ trace[k].chosen \in trace[k].used_before =>
                          SeqToSet(trace[k].candidates) \subseteq trace[k].used_before
            /\ \A d \in 1..Len(days) : \A m \in 1..Len(days[d].meals) :
                   ids(days[d].meals[m]) = ids(days[1].meals[m])
            /\ \A m \in 1..Len(meals) :
                   days # <<>> => ids(meals[m]) = ids(days[1].meals[m])

\* variety disabled, two days planned: the lunch of the second day has the
\* foods of the first day's lunch, and in it the recipe chosen for the carb
\* role, first candidate of the vegetable role too, is avoided for that role
C22_Witness ==
    /\ ~prefer_variety
    /\ used_foods = {}
    /\ Len(days) >= 2
    /\ LET lunch == days[2].meals[2].meal.components
       IN  /\ Len(lunch) = 3
           /\ lunch[2].food_id = "gustar_5"
           /\ lunch[3].food_id = "gustar_6"
           /\ days[1].meals[2].meal.components[3].food_id = "gustar_6"
    /\ last_call.status = "ok"
    /\ last_call.day = 1
    /\ last_call.trace[1].used_before = {}

\* C23 as stated: for every slot the calorie target is daily calories x slot
\* percentage / 100; each of proteins, carbs and fats is daily value x slot
\* percentage / 100 when the daily value is set (0 included) and absent when
\* it is unset; the four calorie targets sum to daily calories x (sum of the
\* percentages) / 100.
C23_SlotTargets ==
    (calc.op = "_compute_daily_targets" /\ calc.result # None) =>
        LET daily == calc.args.daily_target
            dist == calc.args.meal_distribution
            out == calc.result[1]
            share(x, meal_type) == RDiv(RMul(x, SlotPct(dist, meal_type)), R(100))
            macro(x, y, meal_type) == IF x = None THEN y = None
                                      ELSE y = share(x, meal_type)
        IN  /\ DOMAIN out = SeqToSet(MealTypes)
            /\ \A meal_type \in SeqToSet(MealTypes) :
                   /\ out[meal_type].calories = share(daily.calories, meal_type)
                   /\ macro(daily.proteins, out[meal_type].proteins, meal_type)
                   /\ macro(daily.carbs, out[meal_type].carbs, meal_type)
                   /\ macro(daily.fats, out[meal_type].fats, meal_type)
            /\ RAdd(RAdd(out["breakfast"].calories, out["lunch"].calories),
                    RAdd(out["snack"].calories, out["dinner"].calories))
               = RDiv(RMul(daily.calories,
                           RAdd(RAdd(dist.breakfast_pct, dist.lunch_pct),
                                RAdd(dist.snack_pct, dist.dinner_pct))), R(100))

\* C24 as stated: calculate_grams_for_calories returns 0 when the food's
\* calories per 100 g are <= 0; otherwise target_calories / calories per
\* 100 g x 100 clamped into [min_grams, max_grams] and rounded to one decimal,
\* so for min_grams <= max_grams the result lies within [min_grams, max_grams]
\* and is never negative.
C24_GramsInBounds ==
    (calc.op = "calculate_grams_for_calories" /\ calc.result # None) =>
        LET a == calc.args
            out == calc.result[1]
        IN  IF RLe(a.food.macros_per_100g.calories, Zero) THEN out = Zero
            ELSE /\ RLe(Zero, out)
                 /\ (a.min_grams # None /\ (a.max_grams # None => RLe(a.min_grams, a.max_grams)))
                        => RLe(a.min_grams, out)
                 /\ (a.max_grams # None /\ (a.min_grams # None => RLe(a.min_grams, a.max_grams)))
                        => RLe(out, a.max_grams)

\* C24 amended: the result is 0 when the calories per 100 g are <= 0;
\* otherwise it is the clamped quantity rounded to one decimal: a multiple of
\* 0.1, not negative, at most 0.05 away from the clamped quantity, hence at
\* most 0.05 outside [min_grams, max_grams], and inside it when the bounds are
\* multiples of 0.1.
C24_GramsWithinRounding ==
    (calc.op = "calculate_grams_for_calories" /\ calc.result # None) =>
        LET a == calc.args
            out == calc.result[1]
            raw == RMul(RDiv(a.target_calories, a.food.macros_per_100g.calories), R(100))
            low == IF a.min_grams # None THEN RMax(raw, a.min_grams) ELSE raw
            clamped == IF a.max_grams # None THEN RMin(low, a.max_grams) ELSE low
            tenths(x) == RMul(x, R(10))[2] = 1
        IN  IF RLe(a.food.macros_per_100g.calories, Zero) THEN out = Zero
            ELSE /\ tenths(out)
                 /\ RLe(Zero, out)
                 /\ RLe(RAbs(RSub(out, clamped)), <<1, 20>>)
                 /\ (a.min_grams # None /\ (a.max_grams # None => RLe(a.min_grams, a.max_grams)))
                        => /\ RLe(RSub(a.min_grams, <<1, 20>>), out)
                           /\ tenths(a.min_grams) => RLe(a.min_grams, out)
                 /\ (a.max_grams # None /\ (a.min_grams # None => RLe(a.min_grams, a.max_grams)))
                        => /\ RLe(out, RAdd(a.max_grams, <<1, 20>>))
                           /\ tenths(a.max_grams) => RLe(out, a.max_grams)

\* a quantity clamped up to a minimum of 10.04 g and returned as 10.0 g
C24_Witness ==
    /\ calc.op = "calculate_grams_for_calories"
    /\ calc.result = <<R(10)>>
    /\ calc.args.min_grams = <<1004, 100>>
    /\ calc.args.max_grams = R(500)
    /\ RGt(calc.args.food.macros_per_100g.calories, Zero)

\* C25: in every plan returned by solve each day's daily_totals is the sum
\* of the actual macros of the day's meals, which is the sum of
\* computed_macros over all components of the day; weekly_totals is the sum
\* of all daily_totals; weekly_averages is weekly_totals scaled by
\* 1 / num_days.
C25_Totals ==
    (output.returned /\ output.success) =>
        LET plan == output.plan[1]
            n == plan.constraints.num_days
            fields == {"calories", "proteins", "carbs", "fats"}
            byMeals(ms) == IF Len(ms) = 4
                           THEN MacrosAdd(MacrosAdd(MacrosAdd(MacrosAdd(MacrosZero,
                                    actual_macros(ms[1].meal)), actual_macros(ms[2].meal)),
                                    actual_macros(ms[3].meal)), actual_macros(ms[4].meal))
                           ELSE MacrosZero
            byDays[k \in 0..n] == IF k = 0 THEN MacrosZero
                                  ELSE MacrosAdd(byDays[k - 1], plan.days[k].daily_totals)
            average(totals, averages) ==
                /\ \A f \in fields : RMul(averages[f], R(n)) = totals[f]
                /\ IF totals.fiber = None THEN averages.fiber = None
                   ELSE RMul(averages.fiber, R(n)) = totals.fiber
        IN  /\ Len(plan.days) = n
            /\ \A d \in 1..n :
                   /\ Len(plan.days[d].meals) = 4
                   /\ plan.days[d].daily_totals = byMeals(plan.days[d].meals)
                   /\ plan.days[d].daily_totals = SumMacros(DayComponents(plan.days[d]))
            /\ \A f \in fields \cup {"fiber"} : plan.weekly_totals[f] = byDays[n][f]
            /\ average(plan.weekly_totals, plan.weekly_averages)

\* a returned plan of two days with positive totals, one of them a treat day
C25_Witness ==
    /\ output.returned
    /\ output.success
    /\ Len(output.plan[1].days) = 2
    /\ \E d \in 1..2 : output.plan[1].days[d].is_cheat_day
    /\ RGt(output.plan[1].days[1].daily_totals.calories, Zero)
    /\ output.plan[1].days[2].daily_totals.calories
           # output.plan[1].days[1].daily_totals.calories
    /\ output.plan[1].weekly_totals.fiber # None
    /\ RLt(output.plan[1].weekly_averages.calories, output.plan[1].weekly_totals.calories)

\* C26: for a day the calorie-tolerance step of the validator adds exactly
\* one of: an error when the absolute relative deviation of actual from
\* target calories exceeds the tolerance percentage; a near-the-limit warning
\* when it exceeds 80 % of the tolerance but not the tolerance; nothing
\* otherwise.  A deviation equal to the tolerance is no error, and no day
\* gets both an error and a warning.
C26_ToleranceStep ==
    (calc.op = "_check_calorie_tolerance" /\ calc.result # None) =>
        LET target == calc.args.constraints.daily_target.calories
            actual == calc.args.day_plan.daily_totals.calories
            tolerance == calc.args.constraints.daily_target.calorie_tolerance_pct
            added == calc.result[1].added
            \* |actual - target| / target * 100 compared with p percent
            exceeds(p) == RGt(RMul(RAbs(RSub(actual, target)), R(100)), RMul(p, target))
        IN  /\ Len(added) <= 1
            /\ exceeds(tolerance) <=>
                   added = <<[severity |-> "error", code |-> "CALORIE_OUT_OF_TOLERANCE",
                              day |-> calc.args.day_plan.day]>>
            /\ (exceeds(RMul(tolerance, <<4, 5>>)) /\ ~exceeds(tolerance)) <=>
                   added = <<[severity |-> "warning", code |-> "CALORIE_NEAR_LIMIT",
                              day |-> calc.args.day_plan.day]>>
            /\ (~exceeds(RMul(tolerance, <<4, 5>>))) <=> added = <<>>
            /\ RAbs(calc.result[1].deviation_pct) = tolerance =>
                   \A k \in 1..Len(added) : added[k].severity # "error"

\* a day whose deviation equals the tolerance (2200 kcal for 2000 kcal and
\* 10 %): the step has added the near-the-limit warning
C26_Witness ==
    /\ calc.op = "_check_calorie_tolerance"
    /\ calc.result # None
    /\ calc.args.day_plan.daily_totals.calories = R(2200)
    /\ calc.args.constraints.daily_target.calorie_tolerance_pct = R(10)
    /\ calc.result[1].deviation_pct = R(10)
    /\ Len(calc.result[1].added) = 1
    /\ calc.result[1].added[1].code = "CALORIE_NEAR_LIMIT"

\* C27: after validate on any plan is_valid is false if and only if the
\* error list is not empty; recalculation-mismatch warnings (stored totals
\* more than 1 % away from the recomputed ones) and near-the-limit warnings
\* go to the warning list only and never make is_valid false.
C27_ValidIffNoError ==
    LET holds(result, plan) ==
            LET codes(findings) == {findings[k].code : k \in 1..Len(findings)}
                warned == {"MACRO_MISMATCH_CALORIES", "MACRO_MISMATCH_PROTEINS",
                           "CALORIE_NEAR_LIMIT"}
                reported == plan.days[1].daily_totals.calories
                recomputed == _recalculate_daily_macros(catalog, plan.days[1].meals).calories
            IN  /\ result.is_valid <=> result.errors = <<>>
                /\ \A k \in 1..Len(result.errors) : result.errors[k].severity = "error"
                /\ \A k \in 1..Len(result.warnings) : result.warnings[k].severity = "warning"
                /\ codes(result.errors) \cap warned = {}
                /\ codes(result.warnings) \subseteq warned
                /\ (Len(plan.days) = 1 /\ RGt(reported, Zero)) =>
                       ("MACRO_MISMATCH_CALORIES" \in codes(result.warnings)
                        <=> RGt(RMul(RAbs(RSub(reported, recomputed)), R(100)), reported))
    IN  (calc.op = "validate" /\ calc.result # None) => holds(calc.result[1], calc.args)

\* a plan whose stored totals (310 kcal) are 3.2 % away from the recomputed
\* ones (300 kcal) and 8.8 % below the target (340 kcal, tolerance 10 %): a
\* mismatch warning and a near-the-limit warning, no error, is_valid true
C27_Witness ==
    /\ calc.op = "validate"
    /\ calc.result # None
    /\ calc.result[1].is_valid
    /\ calc.result[1].errors = <<>>
    /\ Len(calc.result[1].warnings) >= 2
    /\ \E k \in 1..Len(calc.result[1].warnings) :
           calc.result[1].warnings[k].code = "MACRO_MISMATCH_CALORIES"
    /\ \E k \in 1..Len(calc.result[1].warnings) :
           calc.result[1].warnings[k].code = "CALORIE_NEAR_LIMIT"

\* C29: determine_source_strategy is total over every (preference, slot)
\* pair, an unknown preference and an absent slot included: it returns three
\* weights, each in [0, 1], that sum to 1 (here: hundredths, sum 100);
\* (0.90 reference, 0 recipe, 0.10 packaged) for fresh with breakfast or
\* snack, (0.45, 0.40, 0.15) for balanced with lunch or dinner; a preference
\* other than fresh, recipes or quick gives the balanced row.
C29_StrategyTotal ==
    (calc.op = "determine_source_strategy" /\ calc.result # None) =>
        LET preference == calc.args.preference
            meal_type == calc.args.meal_type
            out == calc.result[1]
            row(ciqual, gustar, off) ==
                out.ciqual = ciqual /\ out.gustar = gustar /\ out.off = off
            balanced == IF meal_type \in {"breakfast", "snack"} THEN row(70, 10, 20)
                        ELSE row(45, 40, 15)
        IN  /\ DOMAIN out = {"gustar", "ciqual", "off"}
            /\ \A source \in DOMAIN out : out[source] \in 0..100
            /\ out.gustar + out.ciqual + out.off = 100
            /\ (preference = "fresh" /\ meal_type \in {"breakfast", "snack"})
                  => row(90, 0, 10)
            /\ (preference = "balanced" /\ meal_type \in {"lunch", "dinner"})
                  => row(45, 40, 15)
            /\ preference \notin {"fresh", "recipes", "quick"} => balanced

\* an unknown preference with an absent slot has been answered with the
\* balanced row of the main meals
C29_Witness ==
    /\ calc.op = "determine_source_strategy"
    /\ calc.args = [preference |-> "unknown", meal_type |-> "none"]
    /\ calc.result = <<SourceStrategy(40, 45, 15)>>

C30_ZeroGramsRaises ==
    LET built == SelectSeq(last_call.trace, LAMBDA e : e.built)
        before(e) == RDiv(RMul(get_by_id(catalog, e.chosen)[1].macros_per_100g.calories,
                               e.grams), R(100))
        total[k \in 0..Len(built)] ==
            IF k = 0 THEN Zero ELSE RAdd(total[k - 1], before(built[k]))
        rescaled(e) == Round1(RMul(e.grams, RDiv(last_call.meal.target_macros.calories,
                                                 total[Len(built)])))
        vanishes == /\ last_call.status \in {"ok", "raised"}
                    /\ last_call.error # "OSError"
                    /\ built # <<>>
                    /\ \E k \in 1..Len(built) : rescaled(built[k]) = Zero
        atLeastTenth(components) ==
            \A k \in 1..Len(components) : RLe(<<1, 10>>, components[k].grams)
    IN  /\ vanishes =>
               /\ last_call.status = "raised"
               /\ last_call.error = "ValidationError: grams"
               /\ pc = "done"
               /\ output.returned
               /\ ~output.success
               /\ output.plan = None
        /\ last_call.status = "ok" => atLeastTenth(last_call.meal.components)
        /\ \A m \in 1..Len(meals) : atLeastTenth(meals[m].meal.components)
        /\ \A d \in 1..Len(days) : atLeastTenth(DayComponents(days[d]))
        /\ output.success =>
               \A d \in 1..Len(output.plan[1].days) :
                   atLeastTenth(DayComponents(output.plan[1].days[d]))

\* the snack of a distribution whose snack share is 0: two components were
\* built at their minimum portion, the rescale factor is 0, and the solve
\* has returned the failure after two planned meals
C30_Witness ==
    /\ pc = "done"
    /\ last_call.status = "raised"
    /\ last_call.error = "ValidationError: grams"
    /\ Len(SelectSeq(last_call.trace, LAMBDA e : e.built)) = 2
    /\ last_call.meal.target_macros.calories = Zero
    /\ Len(meals) = 2
    /\ output.returned
    /\ ~output.success
    /\ output.plan = None
    /\ output.infeasibility_reason = <<"ValidationError: grams">>

====
